---- MODULE Spec2Model ----
(***************************************************************************)
(* Process supervision subsystem of syla's CLI.                            *)
(*                                                                         *)
(* ProcessManager (cli/src/services/process_manager.rs) keeps a registry   *)
(* name -> ServiceProcess behind one mutex.  The CLI thread calls          *)
(* start_service / stop_service / restart_service / get_service_status;    *)
(* every successful start spawns a health-monitoring thread.  Each lock    *)
(* scope of the code is one step of the model; steps that keep the lock    *)
(* across a wait (the 5 s grace period of a graceful stop, the HTTP GET of *)
(* a health check) are split in two with the lock held in between.         *)
(***************************************************************************)
EXTENDS Integers, Sequences, FiniteSets, Bags, TLC

VARIABLES
    services,   \* the registry: a function from the registered names to records
    spawned,    \* how many times Command::spawn has been called so far
    children,   \* the child processes that are alive: a set of [pid, name]
    monitors,   \* the health-monitoring threads that are alive: a bag of [name, born, pc, hs]
    lock,       \* who holds the registry mutex: "free", "caller" or "monitor"
    caller,     \* the CLI thread: its position inside a multi-step operation
    ret,        \* the step that was just taken and what it returned
    signalled,  \* per child, how many stop_service calls have sent it a signal: a bag of pids
    tracing,    \* the bookkeeping this behaviour keeps: a subset of {"born", "signalled"}
    checks,     \* HealthMonitor.checks: a function from the names to their HealthCheck
    results,    \* HealthMonitor.results: a function from the names to their ServiceHealth
    trail,      \* what the HealthMonitor has done so far: a sequence of <<name, event>>
    line,       \* the line handed to the LogParser: a sequence of tokens
    file,       \* the content of the watched log file: a sequence of tokens
    written,    \* what the writer of the log file has done so far: the tokens and truncations
    watchers,   \* the LogWatcher threads: a sequence of [service, follow, pc, position, ...]
    channel,    \* the entries sent on the mpsc channel and not yet received
    streamer    \* the LogStreamer and its call of stream: [alive, handles, pc, config, ...]

(* The state of the log streaming subsystem *)
logs == <<line, file, written, watchers, channel, streamer>>

(* What no step of the ProcessManager touches: the choice of the bookkeeping,
   the state of the HealthMonitor and the logs *)
beyond == <<tracing, checks, results, trail, logs>>

vars == <<services, spawned, children, monitors, lock, caller, ret, signalled, beyond>>

----------------------------------------------------------------------------
(* Bounds of the model: how many children Command::spawn may create in one
   behaviour, and the service names the calls are made with *)

MaxSpawns == 2

Names == {"a"}

(* Option<T> *)
None == <<>>
Some(x) == <<x>>
IsSome(o) == o # None
Unwrap(o) == o[1]

(* RestartPolicy *)
RestartPolicy == {"Never", "OnFailure", "Always", "UnlessStopped"}

(* ProcessState; Failed(reason) keeps no reason here: the reason is the text
   of the OS error and no operation reads it. *)
ProcessState == {"Starting", "Running", "Stopping", "Stopped", "Failed", "Restarting"}

(* HealthStatus; Unhealthy(reason) likewise. *)
HealthStatus == {"Unknown", "Healthy", "Unhealthy"}

(* ProcessConfig, restricted to the fields the supervisor branches on:
   command is "ok" for an executable that is in place throughout and "bad"
   for one that is missing, which Command::spawn cannot launch unless it has
   been put in place by the time of the call; url is
   health_check_url.is_some().  start_service
   takes every combination: the update block of the monitoring thread reads
   the policy of whatever record it finds, so a record without a url or of
   a failed spawn can be marked under its policy too. *)
ProcessConfig(n) ==
    [name : {n}, command : {"ok", "bad"}, url : BOOLEAN,
     restart_policy : RestartPolicy]

(* ServiceProcess *)
ServiceProcess(cfg, state, process, started_at) ==
    [config |-> cfg, state |-> state, process |-> process,
     started_at |-> started_at, restart_count |-> 0,
     last_health_check |-> None, health_status |-> "Unknown"]

----------------------------------------------------------------------------
(* ProcessManager::new *)

EmptyMap == [m \in {} |-> None]

(* What the step just taken was and returned: the operation, the name it
   was called on, Ok/Err (or pending inside a multi-step operation), the
   branch taken, and a value: the answer of a status query, or for a
   restart that returned Ok the restart counter it had found *)
Ret(op, n, result, how) ==
    [op |-> op, name |-> n, result |-> result, how |-> how, val |-> None]

(* The CLI thread between calls.  Inside a call it keeps the locals of the
   call: the name, the handle taken from the record, the config read by
   restart_service, the names stop_all has still to go through; count0 is
   the restart counter restart_service found and tried the stops stop_all
   has made with their results, both kept only to state what the call did. *)
Idle == [pc |-> "idle", name |-> "", handle |-> None, cfg |-> None, count0 |-> 0,
         rest |-> {}, tried |-> <<>>]

(* The identity of the monitoring threads (born) and the signals sent to the
   children (signalled) are kept only to state properties; no step reads
   them.  A behaviour keeps the ones named in tracing, fixed at its start. *)
Tracing == {"born", "signalled"}

NewManagers(kept) ==
    /\ tracing = kept
    /\ services = EmptyMap
    /\ spawned = 0
    /\ children = {}
    /\ monitors = EmptyBag
    /\ lock = "free"
    /\ caller = Idle
    /\ ret = Ret("new", "", "ok", "")
    /\ signalled = EmptyBag
    /\ checks = EmptyMap
    /\ results = EmptyMap
    /\ trail = <<>>

(* LogStreamer::new, log_streamer.rs lines 256-264, before any call of
   stream.  handles maps a service name to the thread whose JoinHandle the
   streamer keeps; adding holds the calls of add_log_file that have spawned
   their thread and not yet put its JoinHandle into the map, each with the
   name of the service and the thread; pc, config, buffer and count are the
   position and the locals of stream; received is what the call of stream
   has taken off the channel and shown what it has displayed, in order;
   earlier is what the calls of stream that have returned had taken off the
   channel *)
NewStreamer ==
    [alive |-> TRUE, handles |-> EmptyMap, adding |-> {}, pc |-> "idle", config |-> None,
     buffer |-> <<>>, count |-> 0, received |-> <<>>, shown |-> <<>>, earlier |-> <<>>]

(* The log files, log_dir/<service>.log (line 398), each named here by its
   service *)
LogFiles == {"a", "b"}

NoWatchers ==
    /\ watchers = <<>>
    /\ channel = <<>>
    /\ streamer = NewStreamer

(* No log file has been written and no log line read *)
InitOf(kept) ==
    NewManagers(kept) /\ line = <<>> /\ file = [p \in LogFiles |-> <<>>] /\ written = <<>> /\ NoWatchers

Init == InitOf({})

(* Instant::now(): logical time, which advances with every call of
   Command::spawn *)
Now == spawned

(* HashMap::insert *)
Insert(svcs, n, rec) ==
    [m \in (DOMAIN svcs) \cup {n} |-> IF m = n THEN rec ELSE svcs[m]]

Registered(n) == n \in DOMAIN services

(* Command::spawn: Ok(child) iff the executable can be launched at the time
   of the call; present tells whether a missing executable is in place by
   then *)
SpawnProcess(cfg, present) == cfg.command = "ok" \/ present

(* A start_service that short-circuits on a record that is still Starting
   instead of one that is Running *)
AlreadyRunningStarting(n) == Registered(n) /\ services[n].state = "Starting"

(* start_service, lines 86-91: the only state that short-circuits is Running *)
AlreadyRunning(n) == Registered(n) /\ services[n].state = "Running"

(* A start_service that carries the health status and the restart counter of
   the record it replaces over to the new one *)
StartedRecordCarriedOver(cfg, pid, now) ==
    IF Registered(cfg.name)
    THEN [ServiceProcess(cfg, "Running", Some(pid), Some(now)) EXCEPT
            !.health_status = services[cfg.name].health_status,
            !.last_health_check = services[cfg.name].last_health_check,
            !.restart_count = services[cfg.name].restart_count]
    ELSE ServiceProcess(cfg, "Running", Some(pid), Some(now))

(* The record start_service inserts: a fresh ServiceProcess, Running with the
   child and the start time on success, Failed with neither on a spawn error *)
StartedRecord(cfg, pid, now) ==
    ServiceProcess(cfg, "Running", Some(pid), Some(now))

(* A start_service that leaves the record of a failed spawn in Starting *)
FailedRecordStarting(cfg) ==
    ServiceProcess(cfg, "Starting", None, None)

FailedRecord(cfg) ==
    ServiceProcess(cfg, "Failed", None, None)

(* The thread start_health_monitoring spawns: it first sleeps.  born tells
   the threads apart: it is the child the thread was spawned along with. *)
NewMonitor(n, pid) ==
    [name |-> n, born |-> IF "born" \in tracing THEN pid ELSE 0,
     pc |-> "sleep", hs |-> "Unknown"]

(* start_service from the lock to the return, the whole of it under the lock.
   Yields the message of the branch taken through how.  A call of
   Command::spawn counts against the budget whether it succeeds or fails. *)
StartHow(cfg, present) ==
    IF AlreadyRunning(cfg.name) THEN "already running"
    ELSE IF SpawnProcess(cfg, present) THEN "started" ELSE "spawn failed"

StartBody(cfg, budget, present) ==
    LET n == cfg.name
        pid == spawned + 1
    IN  CASE StartHow(cfg, present) = "already running" ->
                UNCHANGED <<services, spawned, children, monitors>>
          [] StartHow(cfg, present) = "started" ->
                /\ spawned < budget
                /\ spawned' = pid
                /\ children' = children \cup {[pid |-> pid, name |-> n]}
                /\ services' = Insert(services, n, StartedRecord(cfg, pid, pid))
                /\ monitors' = monitors (+) SetToBag({NewMonitor(n, pid)})
          [] OTHER ->
                /\ spawned < budget
                /\ spawned' = pid
                /\ services' = Insert(services, n, FailedRecord(cfg))
                /\ UNCHANGED <<children, monitors>>

StartResult(cfg, present) ==
    IF StartHow(cfg, present) = "spawn failed" THEN "err" ELSE "ok"

(* start_service called by the CLI *)
StartService(cfg, budget, present) ==
    /\ caller.pc = "idle"
    /\ lock = "free"
    /\ StartBody(cfg, budget, present)
    /\ ret' = Ret("start", cfg.name, StartResult(cfg, present), StartHow(cfg, present))
    /\ UNCHANGED <<lock, caller, signalled, beyond>>

----------------------------------------------------------------------------
(* stop_service *)

(* Child::kill on success: the child is no longer alive *)
Killed(pid) == {c \in children : c.pid # pid}

(* Child::try_wait: Ok(None) while the child is alive; once it has exited,
   Ok(Some(status)) when its status can be collected (waitOk) and Err when it
   cannot, the child having been reaped already (ECHILD, as when SIGCHLD is
   ignored) *)
TryWait(pid, waitOk) ==
    IF \E c \in children : c.pid = pid THEN "None"
    ELSE IF waitOk THEN "Some" ELSE "Err"

(* A stop_service that only short-circuits while a stop is under way *)
AlreadyStoppedStopping(n) == services[n].state = "Stopping"

(* line 138: if let ProcessState::Stopped = service.state *)
AlreadyStopped(n) == services[n].state = "Stopped"

(* line 145: what service.process.take() hands to this call *)
Taken(n) == services[n].process

(* A process.take() that leaves the handle in the record *)
StoppingKeepsHandle(n) ==
    [services EXCEPT ![n].state = "Stopping"]

(* lines 143-145: state = Stopping, then process.take() leaves None *)
Stopping(n) ==
    [services EXCEPT ![n].state = "Stopping", ![n].process = None]

(* This call of stop_service signals the child: Child::kill (line 147) or
   SIGTERM (line 157), then at most a Child::kill of its own after the grace
   period (line 169) *)
Signalled(pid) ==
    IF "signalled" \in tracing THEN signalled (+) SetToBag({pid}) ELSE signalled

(* A stop_service that takes the record of the stopped service out of the
   registry *)
StoppedRemoved(n) ==
    [m \in DOMAIN services \ {n} |-> services[m]]

(* line 175, reached only inside `if let Some(process)` *)
Stopped(n) ==
    [services EXCEPT ![n].state = "Stopped", ![n].process = None]

(* A stop_all that hands the error of a stop_service on *)
StopAllResultPropagated(result) == result

(* line 323, `let _ = self.stop_service(..)`: what stop_all makes of the
   result of one stop_service *)
StopAllResult(result) == "ok"

(* What the caller does when the stop_service it called returns: a plain
   stop returns to the CLI; inside restart_service an Err leaves through `?`
   and an Ok goes on to the settle delay and start_service (lines 194-196);
   inside stop_all the loop goes on to the next name (lines 322-324) *)
StopReturns(n, result, how) ==
    IF caller.pc \in {"restart_stop", "restart_grace"}
    THEN IF result = "ok"
         THEN /\ caller' = [caller EXCEPT !.pc = "restart_start", !.handle = None]
              /\ ret' = Ret("restart", n, "pending", how)
         ELSE /\ caller' = Idle
              /\ ret' = Ret("restart", n, "err", how)
    ELSE IF caller.pc \in {"stop_all", "stop_all_grace"}
    THEN IF StopAllResult(result) = "ok"
         THEN /\ caller' = [caller EXCEPT !.pc = "stop_all", !.handle = None,
                                           !.rest = @ \ {n},
                                           !.tried = Append(@, <<n, result>>)]
              /\ ret' = Ret("stop_all", n, "pending", how)
         ELSE /\ caller' = Idle
              /\ ret' = [Ret("stop_all", n, "err", how) EXCEPT
                            !.val = Some(Append(caller.tried, <<n, result>>))]
    ELSE /\ caller' = Idle
         /\ ret' = Ret("stop", n, result, how)

(* What the caller does when stop_service starts the grace period: it sleeps
   with the lock held and the child handle in a local *)
StopWaits(n, pid) ==
    /\ caller' = [caller EXCEPT
                    !.pc = CASE caller.pc = "restart_stop" -> "restart_grace"
                             [] caller.pc = "stop_all" -> "stop_all_grace"
                             [] OTHER -> "stop_grace",
                    !.name = n, !.handle = Some(pid)]
    /\ ret' = Ret(CASE caller.pc = "restart_stop" -> "restart"
                    [] caller.pc = "stop_all" -> "stop_all"
                    [] OTHER -> "stop",
                  n, "pending", "sigterm")

(* stop_service from the lock to the return or to the grace period
   (lines 135-162).  killOk is the outcome of Child::kill. *)
StopBody(n, force, killOk) ==
    IF ~Registered(n)
    THEN /\ StopReturns(n, "ok", "not found")
         /\ UNCHANGED <<services, children, lock, signalled>>
    ELSE IF AlreadyStopped(n)
    THEN /\ StopReturns(n, "ok", "already stopped")
         /\ UNCHANGED <<services, children, lock, signalled>>
    ELSE IF Taken(n) = None
    THEN /\ services' = Stopping(n)
         /\ StopReturns(n, "ok", "no process")
         /\ UNCHANGED <<children, lock, signalled>>
    ELSE LET pid == Unwrap(Taken(n)) IN
         /\ signalled' = Signalled(pid)
         /\ IF force
            THEN IF killOk
                 THEN /\ children' = Killed(pid)
                      /\ services' = Stopped(n)
                      /\ StopReturns(n, "ok", "killed")
                      /\ UNCHANGED lock
                 ELSE /\ services' = Stopping(n)
                      /\ StopReturns(n, "err", "kill failed")
                      /\ UNCHANGED <<children, lock>>
            ELSE /\ services' = Stopping(n)
                 /\ lock' = "caller"
                 /\ StopWaits(n, pid)
                 /\ UNCHANGED children

(* stop_service after the grace period (lines 164-178).  waitOk and killOk
   are the outcomes of Child::try_wait and Child::kill; an Err of either
   leaves through ? with the record Stopping and its handle taken. *)
StopAfterGrace(n, pid, waitOk, killOk) ==
    IF TryWait(pid, waitOk) = "Err"
    THEN /\ StopReturns(n, "err", "wait failed")
         /\ UNCHANGED <<services, children>>
    ELSE IF TryWait(pid, waitOk) = "Some"
    THEN /\ services' = Stopped(n)
         /\ StopReturns(n, "ok", "stopped gracefully")
         /\ UNCHANGED children
    ELSE IF killOk
    THEN /\ children' = Killed(pid)
         /\ services' = Stopped(n)
         /\ StopReturns(n, "ok", "force killed")
    ELSE /\ StopReturns(n, "err", "kill failed")
         /\ UNCHANGED <<services, children>>

(* stop_service called by the CLI *)
StopService(n, force, killOk) ==
    /\ caller.pc = "idle"
    /\ lock = "free"
    /\ StopBody(n, force, killOk)
    /\ UNCHANGED <<spawned, monitors, beyond>>

(* the grace period of a graceful stop_service ends *)
StopGrace(waitOk, killOk) ==
    /\ caller.pc = "stop_grace"
    /\ lock = "caller"
    /\ StopAfterGrace(caller.name, Unwrap(caller.handle), waitOk, killOk)
    /\ lock' = "free"
    /\ UNCHANGED <<spawned, monitors, signalled, beyond>>

----------------------------------------------------------------------------
(* restart_service *)

(* A restart_service that treats an unknown name as nothing to do *)
RestartServiceLenient(n) ==
    /\ caller.pc = "idle"
    /\ lock = "free"
    /\ IF Registered(n)
       THEN /\ caller' = [Idle EXCEPT !.pc = "restart_stop", !.name = n,
                                       !.cfg = Some(services[n].config),
                                       !.count0 = services[n].restart_count]
            /\ ret' = Ret("restart", n, "pending", "config read")
       ELSE /\ caller' = Idle
            /\ ret' = Ret("restart", n, "ok", "not found")
    /\ UNCHANGED <<services, spawned, children, monitors, lock, signalled, beyond>>

(* lines 188-193: read the stored config under the lock; Err if absent *)
RestartService(n) ==
    /\ caller.pc = "idle"
    /\ lock = "free"
    /\ IF Registered(n)
       THEN /\ caller' = [Idle EXCEPT !.pc = "restart_stop", !.name = n,
                                       !.cfg = Some(services[n].config),
                                       !.count0 = services[n].restart_count]
            /\ ret' = Ret("restart", n, "pending", "config read")
       ELSE /\ caller' = Idle
            /\ ret' = Ret("restart", n, "err", "not found")
    /\ UNCHANGED <<services, spawned, children, monitors, lock, signalled, beyond>>

(* line 194: self.stop_service(name, false)? *)
RestartStop ==
    /\ caller.pc = "restart_stop"
    /\ lock = "free"
    /\ StopBody(caller.name, FALSE, TRUE)
    /\ UNCHANGED <<spawned, monitors, beyond>>

RestartGrace(waitOk, killOk) ==
    /\ caller.pc = "restart_grace"
    /\ lock = "caller"
    /\ StopAfterGrace(caller.name, Unwrap(caller.handle), waitOk, killOk)
    /\ lock' = "free"
    /\ UNCHANGED <<spawned, monitors, signalled, beyond>>

(* lines 195-196: after the settle delay, self.start_service(config)? *)
RestartStart(budget, present) ==
    /\ caller.pc = "restart_start"
    /\ lock = "free"
    /\ LET cfg == Unwrap(caller.cfg) IN
       /\ StartBody(cfg, budget, present)
       /\ IF StartResult(cfg, present) = "ok"
          THEN /\ caller' = [caller EXCEPT !.pc = "restart_count"]
               /\ ret' = Ret("restart", caller.name, "pending", StartHow(cfg, present))
          ELSE /\ caller' = Idle
               /\ ret' = Ret("restart", caller.name, "err", StartHow(cfg, present))
    /\ UNCHANGED <<lock, signalled, beyond>>

(* line 200: service.restart_count += 1 *)
Incremented(n) ==
    [services EXCEPT ![n].restart_count = @ + 1]

(* lines 198-203 *)
RestartCount ==
    /\ caller.pc = "restart_count"
    /\ lock = "free"
    /\ services' = IF Registered(caller.name) THEN Incremented(caller.name) ELSE services
    /\ caller' = Idle
    /\ ret' = [Ret("restart", caller.name, "ok", "restarted") EXCEPT
                    !.val = Some(caller.count0)]
    /\ UNCHANGED <<spawned, children, monitors, lock, signalled, beyond>>

----------------------------------------------------------------------------
(* stop_all *)

(* lines 317-320: collect the registered names under the lock *)
StopAll ==
    /\ caller.pc = "idle"
    /\ lock = "free"
    /\ caller' = [Idle EXCEPT !.pc = "stop_all", !.rest = DOMAIN services]
    /\ ret' = Ret("stop_all", "", "pending", "names read")
    /\ UNCHANGED <<services, spawned, children, monitors, lock, signalled, beyond>>

(* lines 322-326: stop_service(name, false) on the next name, in the order
   the HashMap yields the keys; Ok(()) once there is none left *)
StopAllNext ==
    /\ caller.pc = "stop_all"
    /\ lock = "free"
    /\ IF caller.rest = {}
       THEN /\ caller' = Idle
            /\ ret' = [Ret("stop_all", "", "ok", "done") EXCEPT !.val = Some(caller.tried)]
            /\ UNCHANGED <<services, children, lock, signalled>>
       ELSE \E n \in caller.rest : StopBody(n, FALSE, TRUE)
    /\ UNCHANGED <<spawned, monitors, beyond>>

StopAllGrace(waitOk, killOk) ==
    /\ caller.pc = "stop_all_grace"
    /\ lock = "caller"
    /\ StopAfterGrace(caller.name, Unwrap(caller.handle), waitOk, killOk)
    /\ lock' = "free"
    /\ UNCHANGED <<spawned, monitors, signalled, beyond>>

----------------------------------------------------------------------------
(* get_service_status *)

StatusOf(n) ==
    IF Registered(n) THEN Some(<<services[n].state, services[n].health_status>>) ELSE None

(* lines 210-211: take the lock, read the record, return *)
StatusCall(n) ==
    /\ lock = "free"
    /\ ret' = [Ret("status", n, "ok", "status") EXCEPT !.val = StatusOf(n)]
    /\ UNCHANGED <<services, spawned, children, monitors, lock, caller, signalled, beyond>>

(* get_service_status called by the CLI *)
GetServiceStatus(n) ==
    /\ caller.pc = "idle"
    /\ StatusCall(n)

(* list_services, lines 214-221 *)
ListOf ==
    {<<n, services[n].state, services[n].health_status>> : n \in DOMAIN services}

ListCall ==
    /\ lock = "free"
    /\ ret' = [Ret("list", "", "ok", "list") EXCEPT !.val = Some(ListOf)]
    /\ UNCHANGED <<services, spawned, children, monitors, lock, caller, signalled, beyond>>

ListServices ==
    /\ caller.pc = "idle"
    /\ ListCall


----------------------------------------------------------------------------
(* The thread of start_health_monitoring.  pc: "sleep" before the
   should_check block, "check" before the health-check block, "http" inside
   check_health with the lock held, "update" before the update block, "done"
   after a break. *)

(* lines 250-258 *)
ShouldCheck(n) ==
    /\ Registered(n)
    /\ services[n].state = "Running"
    /\ services[n].config.url

(* One step of a monitoring thread: it leaves the bag when it breaks out of
   its loop and is replaced by its next position otherwise *)
Moved(t, pc, hs) ==
    (monitors (-) SetToBag({t})) (+)
        (IF pc = "done" THEN EmptyBag ELSE SetToBag({[t EXCEPT !.pc = pc, !.hs = hs]}))

MonShouldCheck(t) ==
    /\ t.pc = "sleep"
    /\ lock = "free"
    /\ monitors' = Moved(t, IF ShouldCheck(t.name) THEN "check" ELSE "done", "Unknown")
    /\ ret' = Ret("poll", "", "ok", "")
    /\ UNCHANGED <<services, spawned, children, lock, caller, signalled, beyond>>

(* lines 265-268, 273-278: take the lock, read the url; the state is not
   read again *)
MonCheckBegin(t) ==
    /\ t.pc = "check"
    /\ lock = "free"
    /\ IF ~Registered(t.name)
       THEN /\ monitors' = Moved(t, "done", "Unknown")
            /\ UNCHANGED lock
       ELSE IF services[t.name].config.url
       THEN /\ monitors' = Moved(t, "http", "Unknown")
            /\ lock' = "monitor"
       ELSE /\ monitors' = Moved(t, "update", "Unknown")
            /\ UNCHANGED lock
    /\ ret' = Ret("poll", "", "ok", "")
    /\ UNCHANGED <<services, spawned, children, caller, signalled, beyond>>

(* check_health, lines 299-309: Ok on a 2xx answer, Err on anything else *)
CheckHealth(answer) == IF answer = "2xx" THEN "Healthy" ELSE "Unhealthy"

(* lines 269-272: check_health returns, then the lock is released *)
MonCheckEnd(t, answer) ==
    /\ t.pc = "http"
    /\ lock = "monitor"
    /\ monitors' = Moved(t, "update", CheckHealth(answer))
    /\ lock' = "free"
    /\ ret' = Ret("poll", "", "ok", "")
    /\ UNCHANGED <<services, spawned, children, caller, signalled, beyond>>

(* A monitor that marks the service under every policy but Never *)
RestartsUnlessNever(policy) == policy # "Never"

(* lines 288-289: the policies under which Unhealthy marks the service *)
RestartsOnUnhealthy(policy) == policy \in {"OnFailure", "Always"}

(* An update that marks the service under its policy whatever the check
   came to *)
UpdatedWhateverResult(n, hs, now) ==
    [services EXCEPT
        ![n].health_status = hs,
        ![n].last_health_check = Some(now),
        ![n].state = IF RestartsOnUnhealthy(services[n].config.restart_policy)
                     THEN "Restarting" ELSE @]

(* lines 283-293 *)
Updated(n, hs, now) ==
    [services EXCEPT
        ![n].health_status = hs,
        ![n].last_health_check = Some(now),
        ![n].state = IF hs = "Unhealthy" /\ RestartsOnUnhealthy(services[n].config.restart_policy)
                     THEN "Restarting" ELSE @]

MonUpdate(t) ==
    /\ t.pc = "update"
    /\ lock = "free"
    /\ services' = IF Registered(t.name) THEN Updated(t.name, t.hs, Now) ELSE services
    /\ monitors' = Moved(t, "sleep", "Unknown")
    /\ ret' = Ret("poll", "", "ok", "")
    /\ UNCHANGED <<spawned, children, lock, caller, signalled, beyond>>

----------------------------------------------------------------------------
(* A child process exits by itself (or on the SIGTERM of a graceful stop) *)
ChildExit(c) ==
    /\ children' = children \ {c}
    /\ ret' = Ret("exit", "", "ok", "")
    /\ UNCHANGED <<services, spawned, monitors, lock, caller, signalled, beyond>>

----------------------------------------------------------------------------
(* What check_health can get back from the URL *)
Answers == {"2xx", "error"}

(* The configurations start_service is called with *)
Configs == UNION {ProcessConfig(n) : n \in Names}

(* The steps of the system when the calls are made with the names names,
   start_service with the configurations cfgs, the health URLs answer with
   answers, Child::try_wait and Child::kill succeed as waits and kills say,
   Command::spawn is called at most budget times, and a missing executable
   is in place at a call of Command::spawn as repairs says *)
NextOver(names, cfgs, answers, waits, kills, budget, repairs) ==
    \/ \E cfg \in cfgs : \E present \in repairs : StartService(cfg, budget, present)
    \/ \E n \in names : \E force \in BOOLEAN : \E killOk \in kills : StopService(n, force, killOk)
    \/ \E waitOk \in waits : \E killOk \in kills : StopGrace(waitOk, killOk)
    \/ \E n \in names : RestartService(n)
    \/ RestartStop
    \/ \E waitOk \in waits : \E killOk \in kills : RestartGrace(waitOk, killOk)
    \/ \E present \in repairs : RestartStart(budget, present)
    \/ RestartCount
    \/ StopAll
    \/ StopAllNext
    \/ \E waitOk \in waits : \E killOk \in kills : StopAllGrace(waitOk, killOk)
    \/ \E n \in names : GetServiceStatus(n)
    \/ ListServices
    \/ \E t \in BagToSet(monitors) : MonShouldCheck(t)
    \/ \E t \in BagToSet(monitors) : MonCheckBegin(t)
    \/ \E t \in BagToSet(monitors) : \E answer \in answers : MonCheckEnd(t, answer)
    \/ \E t \in BagToSet(monitors) : MonUpdate(t)
    \/ \E c \in children : ChildExit(c)

(* A missing executable stays missing *)
Next == NextOver(Names, Configs, Answers, BOOLEAN, BOOLEAN, MaxSpawns, {FALSE})

Spec == Init /\ [][Next]_vars

(* The scenario of the signals: the signals sent to the children are kept.
   stop_service reads nothing of the configuration, so the services are
   started with a health URL and OnFailure, which lets a monitoring thread
   mark them, or with neither; the command can be launched or not. *)
SignalConfigs ==
    {c \in Configs : c.url = (c.restart_policy = "OnFailure")
                      /\ c.restart_policy \in {"Never", "OnFailure"}}

NextSignals ==
    NextOver(Names, SignalConfigs, Answers, BOOLEAN, BOOLEAN, MaxSpawns, {FALSE})

SpecSignals == InitOf({"signalled"}) /\ [][NextSignals]_vars

(* The scenario of the repaired command: as the scenario of the signals,
   and a missing executable may be in place, or missing again, at any call
   of Command::spawn *)
NextRepair ==
    NextOver(Names, SignalConfigs, Answers, BOOLEAN, BOOLEAN, MaxSpawns, BOOLEAN)

SpecRepair == InitOf({"signalled"}) /\ [][NextRepair]_vars

(* The system when Child::try_wait and Child::kill never fail, with room for
   a start and two restarts *)
NextReliable == NextOver(Names, Configs, Answers, {TRUE}, {TRUE}, MaxSpawns + 1, {FALSE})

SpecReliable == Init /\ [][NextReliable]_vars

(* The scenario of the automatic restart: the services are started with
   RestartPolicy::OnFailure and a health URL, no health check ever succeeds,
   and the user does nothing but start the services and query their status *)
FailingConfigs ==
    {c \in Configs : c.command = "ok" /\ c.url /\ c.restart_policy = "OnFailure"}

(* What the program does by itself: its monitoring threads run *)
Background ==
    \/ \E t \in BagToSet(monitors) : MonShouldCheck(t)
    \/ \E t \in BagToSet(monitors) : MonCheckBegin(t)
    \/ \E t \in BagToSet(monitors) : MonCheckEnd(t, "error")
    \/ \E t \in BagToSet(monitors) : MonUpdate(t)

NextAutoRestart ==
    \/ \E cfg \in FailingConfigs : StartService(cfg, MaxSpawns, FALSE)
    \/ \E n \in Names : GetServiceStatus(n)
    \/ Background
    \/ \E c \in children : ChildExit(c)

(* The operating system schedules every runnable thread, so a step of a
   monitoring thread that stays possible is taken; nothing obliges the user
   to make a call. *)
SpecAutoRestart == Init /\ [][NextAutoRestart]_vars /\ WF_vars(Background)

(* The scenario of the unattended services: the user starts services and
   queries their status, and makes no stop and no restart; the children may
   exit by themselves.  The health URL of a service is served by its child,
   so no check of a service that has no live child is answered with a 2xx. *)
Polling ==
    \E t \in BagToSet(monitors) :
        \/ MonShouldCheck(t)
        \/ MonCheckBegin(t)
        \/ \E answer \in Answers :
              /\ answer = "2xx" => \E c \in children : c.name = t.name
              /\ MonCheckEnd(t, answer)
        \/ MonUpdate(t)

NextUnattended ==
    \/ \E cfg \in Configs : StartService(cfg, MaxSpawns, FALSE)
    \/ \E n \in Names : GetServiceStatus(n)
    \/ Polling
    \/ \E c \in children : ChildExit(c)

(* The monitoring threads are scheduled again and again *)
SpecUnattended == Init /\ [][NextUnattended]_vars /\ WF_vars(Polling)

(* The scenario of the healthy services: every health check is answered
   with a 2xx, so no record is ever marked Restarting and a record leaves
   Running only through stop_service *)
NextHealthy == NextOver(Names, Configs, {"2xx"}, BOOLEAN, BOOLEAN, MaxSpawns, {FALSE})

SpecHealthy == InitOf({"born"}) /\ [][NextHealthy]_vars

(* The scenario of the fleet: two services, each started with a command that
   can be launched and the policy Never; a has a health URL, which answers
   2xx, and b has none *)
FleetNames == {"a", "b"}

FleetConfigs ==
    {c \in UNION {ProcessConfig(n) : n \in FleetNames} :
        c.command = "ok" /\ c.url = (c.name = "a") /\ c.restart_policy = "Never"}

NextFleet ==
    NextOver(FleetNames, FleetConfigs, {"2xx"}, BOOLEAN, BOOLEAN, MaxSpawns, {FALSE})

SpecFleet == Init /\ [][NextFleet]_vars

----------------------------------------------------------------------------
(***************************************************************************)
(* HealthMonitor (cli/src/services/health_monitor.rs): a registry of       *)
(* health checks and of their last results, used through &mut self, so one *)
(* call at a time.                                                         *)
(***************************************************************************)

(* How many calls of add_check and perform_check one behaviour makes *)
MaxEvents == 4

(* The names the calls are made with *)
HealthNames == {"a", "b"}

(* HealthCheck; the interval, the timeout and the retries are read by no
   method but as the timeout of the GET *)
HealthCheck == [endpoint : {"u", "v"}]

(* health_monitor.rs HealthStatus; the texts of Degraded and Unhealthy are
   read by no method and left out *)
HealthStatusOfCheck == {"Unknown", "Healthy", "Degraded", "Unhealthy"}

(* What a GET comes to: a response with a status code, or no response *)
StatusCodes == {199, 200, 299, 300, 404, 499, 500, 503}

Outcomes ==
    [kind : {"status"}, code : StatusCodes] \cup
    [kind : {"refused", "timeout"}, code : {0}]

(* lines 111-113, ureq's call(): Ok(response) for a status below 400,
   Err(Error::Status) for a status from 400 on, Err(Error::Transport) when
   there is no response *)
Call(outcome) ==
    IF outcome.kind # "status" THEN [is |-> "Err", error |-> "Transport", code |-> 0]
    ELSE IF outcome.code >= 400 THEN [is |-> "Err", error |-> "Status", code |-> outcome.code]
    ELSE [is |-> "Ok", error |-> "", code |-> outcome.code]

(* A test for server errors that leaves 500 itself out *)
ServerErrorAbove(code) == code > 500

(* lines 120 and 127 *)
ServerError(code) == code >= 500

(* check_endpoint, lines 115-134 *)
CheckEndpoint(response) ==
    IF response.is = "Ok"
    THEN IF response.code >= 200 /\ response.code < 300 THEN "Healthy"
         ELSE IF ServerError(response.code) THEN "Unhealthy"
         ELSE "Degraded"
    ELSE IF response.error = "Status"
    THEN IF ServerError(response.code) THEN "Unhealthy" ELSE "Degraded"
    ELSE "Unhealthy"

(* Instant::now() of the monitor: logical time, one tick per call *)
Tick == Len(trail)

(* A registration that starts the name with one failure counted *)
NewServiceHealthFailedOnce(n) ==
    [name |-> n, status |-> "Unknown", last_check |-> None,
     consecutive_failures |-> 1, uptime |-> None, response_time |-> None]

(* lines 48-55 *)
NewServiceHealth(n) ==
    [name |-> n, status |-> "Unknown", last_check |-> None,
     consecutive_failures |-> 0, uptime |-> None, response_time |-> None]

(* add_check *)
AddCheck(n, check) ==
    /\ Len(trail) < MaxEvents
    /\ checks' = Insert(checks, n, check)
    /\ results' = Insert(results, n, NewServiceHealth(n))
    /\ trail' = Append(trail, <<n, "registered">>)
    /\ ret' = Ret("add_check", n, "ok", "")
    /\ UNCHANGED <<services, spawned, children, monitors, lock, caller, signalled, tracing, logs>>

(* A counter that a Degraded result sets back as well *)
FailuresResetUnlessUnhealthy(failures, status) ==
    IF status = "Unhealthy" THEN failures + 1 ELSE 0

(* lines 72-83: consecutive_failures after a check with this status *)
Failures(failures, status) ==
    CASE status = "Healthy" -> 0
      [] status \in {"Unhealthy", "Degraded"} -> failures + 1
      [] OTHER -> failures

(* lines 67-84, on the result registry res *)
RecordedIn(res, n, status, start, end) ==
    [res EXCEPT
        ![n].status = status,
        ![n].last_check = Some(end),
        ![n].response_time = Some(end - start),
        ![n].consecutive_failures = Failures(@, status),
        ![n].uptime = IF status = "Healthy" /\ @ = None THEN Some(0) ELSE @]

Recorded(n, status, start, end) == RecordedIn(results, n, status, start, end)

(* perform_check; the GET takes one tick *)
PerformCheck(n, outcome) ==
    /\ Len(trail) < MaxEvents
    /\ IF n \notin DOMAIN checks
       THEN /\ ret' = Ret("perform_check", n, "err", "not found")
            /\ UNCHANGED <<results, trail>>
       ELSE LET status == CheckEndpoint(Call(outcome)) IN
            /\ results' = IF n \in DOMAIN results
                           THEN Recorded(n, status, Tick, Tick + 1) ELSE results
            /\ trail' = Append(trail, <<n, status>>)
            /\ ret' = [Ret("perform_check", n, "ok", outcome.kind) EXCEPT
                          !.val = Some(<<outcome.code, status>>)]
    /\ UNCHANGED <<services, spawned, children, monitors, lock, caller, signalled, tracing, logs, checks>>

(* A check_all that leaves the names whose check is not Healthy out of the
   mapping it returns *)
CollectedIfHealthy(map, n, status) ==
    IF status = "Healthy" THEN Insert(map, n, status) ELSE map

(* lines 94-96: perform_check on a name taken from checks returns Ok(status) *)
Collected(map, n, status) == Insert(map, n, status)

(* lines 93-97: the loop of check_all over the names in the order the
   HashMap yields them, from the state st = [results, trail, map]; outcomeOf
   gives what the GET of each name comes to *)
RECURSIVE CheckAllLoop(_, _, _)
CheckAllLoop(order, outcomeOf, st) ==
    IF order = <<>> THEN st
    ELSE LET n == Head(order)
             status == CheckEndpoint(Call(outcomeOf[n]))
             now == Len(st.trail)
         IN  CheckAllLoop(Tail(order), outcomeOf,
                [results |-> IF n \in DOMAIN st.results
                             THEN RecordedIn(st.results, n, status, now, now + 1)
                             ELSE st.results,
                 trail |-> Append(st.trail, <<n, status>>),
                 map |-> Collected(st.map, n, status)])

(* The orders in which a HashMap can yield the keys S *)
Orders(S) ==
    {o \in [1..Cardinality(S) -> S] : \A i, j \in 1..Cardinality(S) : o[i] = o[j] => i = j}

(* check_all, lines 89-100 *)
CheckAll(order, outcomeOf) ==
    /\ Len(trail) + Len(order) <= MaxEvents
    /\ LET st == CheckAllLoop(order, outcomeOf,
                               [results |-> results, trail |-> trail, map |-> EmptyMap])
       IN  /\ results' = st.results
           /\ trail' = st.trail
           /\ ret' = [Ret("check_all", "", "ok", "") EXCEPT
                         !.val = Some(<<st.map, [n \in DOMAIN checks |-> outcomeOf[n].kind]>>)]
    /\ UNCHANGED <<services, spawned, children, monitors, lock, caller, signalled, tracing, logs, checks>>

(* A test that takes Degraded for healthy enough *)
NotHealthyButDegraded(status) == status \notin {"Healthy", "Unknown", "Degraded"}

(* line 145: !matches!(health.status, Healthy | Unknown) *)
NotHealthy(status) == status \notin {"Healthy", "Unknown"}

(* get_unhealthy_services, lines 143-148; the Vec it returns is in the order
   of the HashMap and is taken as a set *)
GetUnhealthyServices ==
    /\ ret' = [Ret("get_unhealthy_services", "", "ok", "") EXCEPT
                  !.val = Some({n \in DOMAIN results : NotHealthy(results[n].status)})]
    /\ UNCHANGED <<services, spawned, children, monitors, lock, caller, signalled, tracing,
                   logs, checks, results, trail>>

NextHealthMonitor ==
    \/ \E n \in HealthNames : \E check \in HealthCheck : AddCheck(n, check)
    \/ \E n \in HealthNames : \E outcome \in Outcomes : PerformCheck(n, outcome)
    \/ \E order \in Orders(DOMAIN checks) : \E outcomeOf \in [DOMAIN checks -> Outcomes] :
            CheckAll(order, outcomeOf)
    \/ GetUnhealthyServices

SpecHealthMonitor == Init /\ [][NextHealthMonitor]_vars

----------------------------------------------------------------------------
(* Log parsing, cli/src/services/log_streamer.rs.

   A text (a line, a log file) is a sequence of tokens: blanks, the line
   feed, words, timestamps of the shape the timestamp_regex matches, and
   JSON texts.  The text of a token is a string, whose characters are its
   bytes.  Two neighbours in a text are never both words or timestamps, so
   every word starts and ends at a word boundary. *)

MaxTokens == 5
MaxKeys == 3
LogNames == {"a"}

Space == [kind |-> "space", text |-> " "]
Newline == [kind |-> "newline", text |-> "\n"]
Word(s) == [kind |-> "word", text |-> s]
Json(v) == [kind |-> "json", value |-> v]

(* serde_json::Value: a string, number, boolean, null or array with its
   text, or an object with its members *)
JValue(type, s) == [type |-> type, s |-> s]
JObject(m) == [type |-> "object", map |-> m]

(* The objects of up to MaxKeys members, over the keys the parser reads and
   one more, with strings and a number for values *)
JsonStrings == {"trace", "DEBUG", "warn", "WARNING", "Error", "x", "2024-01-01T00:00:00Z"}

JsonObjects ==
    {JObject(m) : m \in UNION {[K -> {JValue("string", s) : s \in JsonStrings}
                                    \cup {JValue("number", "42")}] :
        K \in {K \in SUBSET {"timestamp", "time", "ts", "level", "severity",
                              "message", "msg", "extra"} : Cardinality(K) <= MaxKeys}}}

JsonValues ==
    {JValue("string", "x"), JValue("number", "42"), JValue("bool", "true"),
     JValue("null", "null"), JValue("array", "[1]")} \cup JsonObjects

(* Utc::now(): a point in time is [date, time] *)
UtcNow == [date |-> "today", time |-> "now"]

(* LogLevel, lines 28-34, and its order as u8 *)
LogLevel == <<"Trace", "Debug", "Info", "Warn", "Error">>

(* str::to_uppercase, line 38: every character of s that is a lower-case
   letter is replaced by its capital, every other character is kept *)
RECURSIVE ToUppercase(_)
ToUppercase(s) ==
    IF s = "" THEN ""
    ELSE LET lower == "abcdefghijklmnopqrstuvwxyz"
             c == SubSeq(s, 1, 1)
             at == {i \in 1..Len(lower) : SubSeq(lower, i, i) = c}
         IN  (IF at = {} THEN c
              ELSE SubSeq("ABCDEFGHIJKLMNOPQRSTUVWXYZ", CHOOSE i \in at : TRUE, CHOOSE i \in at : TRUE))
             \o ToUppercase(Tail(s))

(* A from_str that compares the text as it stands *)
LogLevelFromStrExact(s) ==
    CASE s = "TRACE" -> "Trace"
      [] s = "DEBUG" -> "Debug"
      [] s = "INFO" -> "Info"
      [] s \in {"WARN", "WARNING"} -> "Warn"
      [] s = "ERROR" -> "Error"
      [] OTHER -> "Info"

(* LogLevel::from_str, lines 37-46 *)
LogLevelFromStr(s) ==
    LET u == ToUppercase(s)
    IN  CASE u = "TRACE" -> "Trace"
          [] u = "DEBUG" -> "Debug"
          [] u = "INFO" -> "Info"
          [] u \in {"WARN", "WARNING"} -> "Warn"
          [] u = "ERROR" -> "Error"
          [] OTHER -> "Info"

(* str::trim, line 174: the line from its first to its last token that is
   no white space *)
Trim(l) ==
    LET black == {i \in 1..Len(l) : l[i].kind \notin {"space", "newline"}}
    IN  IF black = {} THEN <<>>
        ELSE SubSeq(l, CHOOSE i \in black : \A j \in black : i <= j,
                       CHOOSE i \in black : \A j \in black : i >= j)

(* serde_json::from_str::<Value>, line 180: Ok when the whole line is one
   JSON text.  A text with quotes, brackets or braces is a token of the kind
   json; a word is a JSON text when it is a number (an optional minus sign,
   digits without a leading zero, an optional fraction, an optional
   exponent) or one of true, false and null *)
FromStrJson(l) ==
    IF Len(l) # 1 THEN None
    ELSE IF l[1].kind = "json" THEN Some(l[1].value)
    ELSE IF l[1].kind # "word" THEN None
    ELSE LET s == l[1].text
             At(t, i) == IF i \in 1..Len(t) THEN SubSeq(t, i, i) ELSE ""
             Digits(t) == t # "" /\ \A i \in 1..Len(t) :
                             At(t, i) \in {"0", "1", "2", "3", "4", "5", "6", "7", "8", "9"}
             body == IF At(s, 1) = "-" THEN Tail(s) ELSE s
             marks == {i \in 1..Len(body) : At(body, i) \in {"e", "E"}}
             e == IF marks = {} THEN Len(body) + 1
                  ELSE CHOOSE i \in marks : \A j \in marks : i <= j
             mantissa == SubSeq(body, 1, e - 1)
             exponent == SubSeq(body, e + 1, Len(body))
             dots == {i \in 1..Len(mantissa) : At(mantissa, i) = "."}
             d == IF dots = {} THEN Len(mantissa) + 1
                  ELSE CHOOSE i \in dots : \A j \in dots : i <= j
             int == SubSeq(mantissa, 1, d - 1)
             number == /\ Digits(int)
                       /\ Len(int) = 1 \/ At(int, 1) # "0"
                       /\ dots = {} \/ Digits(SubSeq(mantissa, d + 1, Len(mantissa)))
                       /\ marks = {} \/ Digits(IF At(exponent, 1) \in {"+", "-"}
                                                THEN Tail(exponent) ELSE exponent)
         IN  IF s \in {"true", "false"} THEN Some(JValue("bool", s))
             ELSE IF s = "null" THEN Some(JValue("null", s))
             ELSE IF number THEN Some(JValue("number", s))
             ELSE None

(* obj.remove(k1).or_else(|| obj.remove(k2))...: the value of the first key
   of keys that obj has, and obj without that key *)
RECURSIVE RemoveFirst(_, _)
RemoveFirst(obj, keys) ==
    IF keys = <<>> THEN [value |-> None, obj |-> obj]
    ELSE IF Head(keys) \in DOMAIN obj
         THEN [value |-> Some(obj[Head(keys)]),
               obj |-> [key \in (DOMAIN obj) \ {Head(keys)} |-> obj[key]]]
         ELSE RemoveFirst(obj, Tail(keys))

(* .and_then(|v| v.as_str()) *)
AsStr(o) == IF IsSome(o) /\ Unwrap(o).type = "string" THEN Some(Unwrap(o).s) ELSE None

(* DateTime::parse_from_rfc3339(s).ok() with the zone taken to UTC, lines 196-197 *)
ParseFromRfc3339(s) ==
    IF s = "2024-01-01T00:00:00Z" THEN Some([date |-> "2024-01-01", time |-> "00:00:00"])
    ELSE None

(* LogEntry, lines 18-25 *)
LogEntry(timestamp, service, level, message, fields, raw) ==
    [timestamp |-> timestamp, service |-> service, level |-> level,
     message |-> message, fields |-> fields, raw |-> raw]

(* parse_json_log, lines 188-223 *)
ParseJsonLog(json, service, raw) ==
    IF json.type # "object" THEN None
    ELSE LET t == RemoveFirst(json.map, <<"timestamp", "time", "ts">>)
             l == RemoveFirst(t.obj, <<"level", "severity">>)
             m == RemoveFirst(l.obj, <<"message", "msg">>)
             stamp == IF IsSome(AsStr(t.value)) THEN ParseFromRfc3339(Unwrap(AsStr(t.value)))
                      ELSE None
         IN  Some(LogEntry(
                IF IsSome(stamp) THEN Unwrap(stamp) ELSE UtcNow,
                service,
                IF IsSome(AsStr(l.value)) THEN LogLevelFromStr(Unwrap(AsStr(l.value))) ELSE "Info",
                IF IsSome(AsStr(m.value)) THEN <<Word(Unwrap(AsStr(m.value)))>> ELSE raw,
                m.obj,
                raw))

(* The regexes of lines 168-169 on a token: timestamp_regex matches a
   timestamp, level_regex (case-insensitive, between word boundaries) a word
   that is a level keyword *)
Matches(regex, tok) ==
    IF regex = "timestamp" THEN tok.kind = "stamp"
    ELSE /\ tok.kind = "word"
         /\ ToUppercase(tok.text) \in {"TRACE", "DEBUG", "INFO", "WARN", "WARNING", "ERROR"}

(* Regex::find: the text of the leftmost token of the line that matches *)
Find(l, regex) ==
    LET hits == {i \in 1..Len(l) : Matches(regex, l[i])}
    IN  IF hits = {} THEN None
        ELSE Some(l[CHOOSE i \in hits : \A j \in hits : i <= j].text)

(* chrono's DateTime::parse_from_str: it builds a DateTime<FixedOffset>, and
   for that the text read must give an offset; under a format with no offset
   item the result is Err(NotEnough) whatever the text.  fmt is the format
   item by item. *)
ParseFromStr(s, fmt) ==
    IF \A i \in 1..Len(fmt) : fmt[i] \notin {"%z", "%:z", "%::z", "%#z"} THEN None
    ELSE IF s = "2024-01-01 00:00:00 +0000"
    THEN Some([date |-> "2024-01-01", time |-> "00:00:00"])
    ELSE None

(* parse_text_log, lines 225-245; the format of line 228 is
   "%Y-%m-%d %H:%M:%S" *)
ParseTextLog(l, service) ==
    LET found == Find(l, "timestamp")
        stamp == IF IsSome(found)
                 THEN ParseFromStr(Unwrap(found),
                        <<"%Y", "-", "%m", "-", "%d", " ", "%H", ":", "%M", ":", "%S">>)
                 ELSE None
        level == Find(l, "level")
    IN  Some(LogEntry(
            IF IsSome(stamp) THEN Unwrap(stamp) ELSE UtcNow,
            service,
            IF IsSome(level) THEN LogLevelFromStr(Unwrap(level)) ELSE "Info",
            l,
            EmptyMap,
            l))

(* parse_line, lines 173-186 *)
ParseLine(l, service) ==
    LET trimmed == Trim(l)
    IN  IF trimmed = <<>> THEN None
        ELSE IF IsSome(FromStrJson(trimmed))
             THEN ParseJsonLog(Unwrap(FromStrJson(trimmed)), service, trimmed)
             ELSE ParseTextLog(trimmed, service)

(* The lines the parser is tried on: blank ones, texts of up to MaxTokens
   blanks, words and timestamps, JSON texts that are no object and words
   that are JSON texts, each as read_line gives it, with or without the line
   feed; one JSON object with its line feed *)
TextLines ==
    LET tokens == {Space} \cup {Word(s) : s \in {"boom", "ERROR", "warn", "WARNING", "errors"}}
                          \cup {[kind |-> "stamp", text |-> s] :
                                    s \in {"2024-01-01 00:00:00", "2024-01-01T00:00:00"}}
    IN  UNION {{l \in [1..n -> tokens] :
                    \A i \in 1..(n - 1) : l[i] = Space \/ l[i + 1] = Space} : n \in 0..MaxTokens}

ParserLines ==
    LET bodies == TextLines \cup {<<Json(v)>> : v \in JsonValues \ JsonObjects}
                            \cup {<<Word(s)>> : s \in {"1", "12", "true"}}
                            \cup {<<Space, Json(v), Space>> : v \in JsonValues \ JsonObjects}
    IN  bodies \cup {l \o <<Newline>> : l \in bodies}
               \cup {<<Json(v), Newline>> : v \in JsonObjects}

InitParser ==
    /\ NewManagers({}) /\ line \in ParserLines
    /\ file = [p \in LogFiles |-> <<>>] /\ written = <<>> /\ NoWatchers

ParseLineCall(service) ==
    /\ ret' = [Ret("parse_line", service, "ok", "") EXCEPT !.val = ParseLine(line, service)]
    /\ UNCHANGED <<services, spawned, children, monitors, lock, caller, signalled, beyond>>

NextParser == \E service \in LogNames : ParseLineCall(service)

SpecParser == InitParser /\ [][NextParser]_vars

----------------------------------------------------------------------------
(* Log watching, cli/src/services/log_streamer.rs.

   The log files are written by their services: a write appends a word or a
   line feed to a file (a write need not be a whole line), and a file may be
   truncated.  Sizes, offsets and positions count bytes.  Every add_log_file
   spawns a thread that runs LogWatcher::watch; a step of the thread is one
   system call on the file, or one send on the channel, together with what
   the thread does by itself before its next one. *)

MaxWrites == 5

(* The mark a truncation leaves in the writers' history *)
Truncated == [kind |-> "truncate", text |-> ""]

(* The scenario of one log file, that of the service a: before the first
   watcher starts it holds nothing, or two lines and a blank line, or a line
   followed by a line that is a JSON number *)
InitWatcher ==
    /\ NewManagers({})
    /\ line = <<>>
    /\ file \in {[p \in LogFiles |-> IF p = "a" THEN f ELSE <<>>] :
                    f \in {<<>>,
                           <<Word("old"), Newline, Newline, Word("older"), Newline>>,
                           <<Word("old"), Newline, Word("12"), Newline>>}}
    /\ written = <<>>
    /\ NoWatchers

(* Everything but the logs *)
managers ==
    <<services, spawned, children, monitors, lock, caller, signalled, tracing, checks, results, trail>>

(* The text a followed by the text b (String::push_str in read_line, a write
   at the end of the file): a word that ends a and a word that begins b are
   one word *)
Cat(a, b) ==
    IF a # <<>> /\ b # <<>> /\ a[Len(a)].kind = "word" /\ b[1].kind = "word"
    THEN SubSeq(a, 1, Len(a) - 1) \o <<Word(a[Len(a)].text \o b[1].text)>> \o Tail(b)
    ELSE a \o b

(* metadata.len(), line 143, and the offsets of seek and stream_position:
   the number of bytes of the text s *)
RECURSIVE Size(_)
Size(s) == IF s = <<>> THEN 0 ELSE Len(s[1].text) + Size(Tail(s))

(* What a read() at the offset n of the text s returns: s without its first
   n bytes, nothing when s has no more than n bytes; an offset inside a
   token leaves the rest of the token, a word *)
RECURSIVE Skip(_, _)
Skip(s, n) ==
    IF n = 0 \/ s = <<>> THEN s
    ELSE IF Len(s[1].text) <= n THEN Skip(Tail(s), n - Len(s[1].text))
    ELSE <<Word(SubSeq(s[1].text, n + 1, Len(s[1].text)))>> \o Tail(s)

(* What a service writes next: a word of one letter that no service has
   written before, or a line feed *)
Writes ==
    {Word(SubSeq("bcfghjkmpqvxyz", Len(written) + 1, Len(written) + 1)), Newline}

(* The service appends tok to its log file p (opened with O_APPEND);
   written is what the services have done to their files so far, in order *)
Write(p, tok) ==
    /\ Len(written) < MaxWrites
    /\ file' = [file EXCEPT ![p] = Cat(@, <<tok>>)]
    /\ written' = Append(written, tok)
    /\ ret' = Ret("write", p, "ok", tok.kind)
    /\ UNCHANGED <<managers, line, watchers, channel, streamer>>

(* The service, or a log rotation, truncates the log file p to length zero *)
Truncate(p) ==
    /\ Len(written) < MaxWrites
    /\ file[p] # <<>>
    /\ file' = [file EXCEPT ![p] = <<>>]
    /\ written' = Append(written, Truncated)
    /\ ret' = Ret("truncate", p, "ok", "")
    /\ UNCHANGED <<managers, line, watchers, channel, streamer>>

(* add_log_file up to the spawn, lines 267-275, while fewer than threads
   threads have been spawned, with LogWatcher::new, lines 102-110, in the new
   thread: the thread runs from here on, and the caller stands before line
   277 with the JoinHandle.  buf is what the BufReader has read ahead, offset
   the offset of the File under it, line the String of the loop with what
   read_line has appended to it; opened is how much the services had written
   when the file was opened and ended how many entries the watchers had sent
   when the thread ended on an error, both kept only to state properties *)
AddLogFile(service, path, follow, threads) ==
    /\ streamer.alive
    /\ Len(watchers) < threads
    /\ watchers' = Append(watchers,
                          [service |-> service, path |-> path, follow |-> follow,
                           pc |-> "start", position |-> 0, offset |-> 0, buf |-> <<>>,
                           line |-> <<>>, opened |-> 0, ended |-> 0])
    /\ streamer' = [streamer EXCEPT
                       !.adding = @ \cup {[service |-> service, thread |-> Len(watchers) + 1]}]
    /\ ret' = Ret("add_log_file", service, "pending", IF follow THEN "follow" ELSE "once")
    /\ UNCHANGED <<managers, line, file, written, channel>>

(* add_log_file from line 277 on: a caller that has spawned its thread takes
   the lock of the map, inserts the JoinHandle under the name of the
   service, where it replaces the one that was there, and returns Ok *)
AddLogFileInsert ==
    /\ \E a \in streamer.adding :
          /\ streamer' = [streamer EXCEPT !.handles = Insert(@, a.service, a.thread),
                                          !.adding = @ \ {a}]
          /\ ret' = Ret("add_log_file", a.service, "ok", "")
    /\ UNCHANGED <<managers, line, file, written, watchers, channel>>

(* lines 119-121: reader.seek(SeekFrom::End(0)) in follow mode *)
StartOffset(path, follow) == IF follow THEN Size(file[path]) ELSE 0

(* The thread of the watcher w after a File::open that failed: watch has
   returned the error through `?`, the thread has printed it (lines 272-274)
   and is over *)
Failed(w) ==
    [w EXCEPT !.pc = "failed",
              !.ended = Len(streamer.earlier) + Len(streamer.received) + Len(channel)]

(* A watch whose failure to open the file ends every watcher thread of the
   streamer *)
WatchOpenEndingAll(i, opens) ==
    /\ watchers[i].pc = "start"
    /\ watchers' = IF opens
                   THEN [watchers EXCEPT
                            ![i].pc = "read",
                            ![i].offset = StartOffset(watchers[i].path, watchers[i].follow),
                            ![i].position = StartOffset(watchers[i].path, watchers[i].follow),
                            ![i].opened = Len(written)]
                   ELSE [j \in 1..Len(watchers) |-> Failed(watchers[j])]
    /\ ret' = Ret("open", watchers[i].service, IF opens THEN "ok" ELSE "err", "")
    /\ UNCHANGED <<managers, line, file, written, channel, streamer>>

(* watch up to its loop, lines 113-121; when File::open fails (opens is
   FALSE) watch returns the error through `?` and the thread ends *)
WatchOpen(i, opens) ==
    /\ watchers[i].pc = "start"
    /\ watchers' = IF opens
                   THEN [watchers EXCEPT
                            ![i].pc = "read",
                            ![i].offset = StartOffset(watchers[i].path, watchers[i].follow),
                            ![i].position = StartOffset(watchers[i].path, watchers[i].follow),
                            ![i].opened = Len(written)]
                   ELSE [watchers EXCEPT ![i] = Failed(@)]
    /\ ret' = Ret("open", watchers[i].service, IF opens THEN "ok" ELSE "err", "")
    /\ UNCHANGED <<managers, line, file, written, channel, streamer>>

(* Where the first line feed of s is, 0 if there is none *)
LineFeed(s) ==
    IF \E i \in 1..Len(s) : s[i] = Newline
    THEN CHOOSE i \in 1..Len(s) : s[i] = Newline /\ \A j \in 1..(i - 1) : s[j] # Newline
    ELSE 0

(* BufReader::read_line, line 126, up to and with its next read() of the
   File, or to its return when it needs none.  What was read ahead goes to
   the line up to its first line feed; when it holds none, the File is read
   from its offset to the end of the file and what was read goes to the line
   up to its first line feed.  read_line returns (ends) when the line has
   its line feed, or when the read() returned nothing; otherwise it goes on
   to a further read() *)
ReadLine(w) ==
    LET ahead == LineFeed(w.buf) # 0
        fetched == IF ahead THEN <<>> ELSE Skip(file[w.path], w.offset)
        avail == Cat(w.buf, fetched)
        n == LineFeed(avail)
    IN  [line |-> Cat(w.line, IF n = 0 THEN avail ELSE SubSeq(avail, 1, n)),
         buf |-> IF n = 0 THEN <<>> ELSE SubSeq(avail, n + 1, Len(avail)),
         offset |-> w.offset + Size(fetched),
         ends |-> n # 0 \/ fetched = <<>>]

(* The test of the inner loop, line 126, up to and with the next read() of
   read_line.  When read_line returns more than 0 the thread stands before
   line 127 with the line; when it returns 0 the loop is left, and with it
   watch unless it follows (lines 134-136), where the sleep of line 139
   begins *)
WatchReadLine(i) ==
    /\ watchers[i].pc = "read"
    /\ LET w == watchers[i]
       IN  \E r \in {ReadLine(w)} :
           /\ watchers' = [watchers EXCEPT
                              ![i].line = r.line,
                              ![i].buf = r.buf,
                              ![i].offset = r.offset,
                              ![i].pc = IF ~r.ends THEN "read"
                                        ELSE IF r.line # <<>> THEN "send"
                                        ELSE IF w.follow THEN "sleep" ELSE "done"]
           /\ ret' = Ret("read_line", w.service, IF r.ends THEN "ok" ELSE "pending",
                         IF ~r.ends THEN "" ELSE IF r.line = <<>> THEN "eof" ELSE "line")
    /\ UNCHANGED <<managers, line, file, written, channel, streamer>>

(* lines 127-129: the line is parsed and the entry, if there is one, sent;
   a send fails, and its error is dropped, once the receiver is gone with
   the streamer *)
WatchSend(i) ==
    /\ watchers[i].pc = "send"
    /\ LET w == watchers[i]
       IN  \E entry \in {ParseLine(w.line, w.service)} :
           /\ channel' = IF IsSome(entry) /\ streamer.alive
                         THEN Append(channel, Unwrap(entry))
                         ELSE channel
           /\ watchers' = [watchers EXCEPT ![i].pc = "position"]
           /\ ret' = Ret("send", w.service, "ok", IF IsSome(entry) THEN "entry" ELSE "none")
    /\ UNCHANGED <<managers, line, file, written, streamer>>

(* lines 130-131: line.clear() and reader.stream_position(), the offset of
   the File less what is read ahead; then the test of the loop again *)
WatchPosition(i) ==
    /\ watchers[i].pc = "position"
    /\ watchers' = [watchers EXCEPT
                       ![i].line = <<>>,
                       ![i].position = watchers[i].offset - Size(watchers[i].buf),
                       ![i].pc = "read"]
    /\ ret' = Ret("stream_position", watchers[i].service, "ok", "")
    /\ UNCHANGED <<managers, line, file, written, channel, streamer>>

(* line 144: the file is taken for truncated when it has fewer bytes than
   the position *)
Shrunk(w) == Size(file[w.path]) < w.position

(* After the sleep of line 139, lines 141-150.  When std::fs::metadata
   returns Err (found is FALSE: the path is gone, or may not be looked at)
   line 142 skips the rest and the thread goes on to read with the File and
   the position it has.  Otherwise the size of the file is compared with the
   position and the file is opened again if it shrank; when that File::open
   fails (opens is FALSE) watch returns the error and the thread ends *)
WatchPoll(i, found, opens) ==
    /\ watchers[i].pc = "sleep"
    /\ watchers' = IF ~found \/ ~Shrunk(watchers[i]) THEN [watchers EXCEPT ![i].pc = "read"]
                   ELSE IF opens
                   THEN [watchers EXCEPT ![i].pc = "read", ![i].offset = 0,
                                         ![i].buf = <<>>, ![i].position = 0]
                   ELSE [watchers EXCEPT ![i] = Failed(@)]
    /\ ret' = Ret("poll", watchers[i].service,
                  IF found /\ Shrunk(watchers[i]) /\ ~opens THEN "err" ELSE "ok",
                  IF found /\ Shrunk(watchers[i]) THEN "reopen" ELSE "")
    /\ UNCHANGED <<managers, line, file, written, channel, streamer>>

(* A marker that is broken into two lines *)
MarkerLinesTwo(service) ==
    <<[kind |-> "stamp", text |-> UtcNow.date \o " " \o UtcNow.time], Space, Word("INFO"),
      Newline, Word("Service"), Space, Word(service), Space, Word("started"), Newline>>

(* The line create_log_file writes, lines 405-409: the time of the call in
   the format "%Y-%m-%d %H:%M:%S", the level, and the text with the name
   of the service; the brackets, the quotes and the colour codes around the
   words are no tokens *)
MarkerLine(service) ==
    <<[kind |-> "stamp", text |-> UtcNow.date \o " " \o UtcNow.time], Space, Word("INFO"),
      Space, Word("Service"), Space, Word(service), Space, Word("started"), Newline>>

(* create_log_file, lines 394-414: the file is opened with create and
   append, or the call fails at create_dir_all or at the open (opens is
   FALSE) having written nothing; the line goes through the BufWriter to the
   file in one write at the flush, which O_APPEND puts at the end *)
CreateLogFile(service, opens) ==
    /\ Len(written) < MaxWrites
    /\ IF opens
       THEN /\ file' = [file EXCEPT ![service] = Cat(@, MarkerLine(service))]
            /\ written' = Append(written, [kind |-> "marker", text |-> service])
            /\ ret' = Ret("create_log_file", service, "ok", "")
       ELSE /\ ret' = Ret("create_log_file", service, "err", "io")
            /\ UNCHANGED <<file, written>>
    /\ UNCHANGED <<managers, line, watchers, channel, streamer>>

(* The log file of a under its writers: the service, which appends and
   truncates, and create_log_file *)
NextCreate ==
    \/ \E tok \in Writes : Write("a", tok)
    \/ Truncate("a")
    \/ \E service \in LogNames : \E opens \in BOOLEAN : CreateLogFile(service, opens)

SpecCreate == InitWatcher /\ [][NextCreate]_vars

(* stop, lines 417-420: the JoinHandles are dropped, which detaches the
   threads *)
StopWatchers ==
    /\ streamer.alive
    /\ streamer' = [streamer EXCEPT !.handles = EmptyMap]
    /\ ret' = Ret("stop", "", "ok", "")
    /\ UNCHANGED <<managers, line, file, written, watchers, channel>>

(* Drop, lines 423-427: stop, then the fields go, the receiver among them;
   a streamer is dropped when no call borrows it *)
DropStreamer ==
    /\ streamer.alive
    /\ streamer.adding = {}
    /\ streamer' = [streamer EXCEPT !.alive = FALSE, !.handles = EmptyMap]
    /\ channel' = <<>>
    /\ ret' = Ret("drop", "", "ok", "")
    /\ UNCHANGED <<managers, line, file, written, watchers>>

(* The steps of the service a and of the watchers of its log file, with
   add_log_file called at most threads times *)
NextWatcherOver(threads) ==
    \/ \E tok \in Writes : Write("a", tok)
    \/ Truncate("a")
    \/ \E service \in LogNames : \E follow \in BOOLEAN :
          AddLogFile(service, "a", follow, threads)
    \/ AddLogFileInsert
    \/ \E i \in 1..Len(watchers) : \E opens \in BOOLEAN : WatchOpen(i, opens)
    \/ \E i \in 1..Len(watchers) : WatchReadLine(i)
    \/ \E i \in 1..Len(watchers) : WatchSend(i)
    \/ \E i \in 1..Len(watchers) : WatchPosition(i)
    \/ \E i \in 1..Len(watchers) : \E found, opens \in BOOLEAN : WatchPoll(i, found, opens)

(* One watcher on the file *)
NextWatcher == NextWatcherOver(1)

SpecWatcher == InitWatcher /\ [][NextWatcher]_vars

(* One watcher on the file and a streamer that may stop and be dropped; the
   threads are scheduled again and again *)
NextTeardown == NextWatcher \/ StopWatchers \/ DropStreamer

Threads ==
    \E i \in 1..Len(watchers) :
        \/ \E opens \in BOOLEAN : WatchOpen(i, opens)
        \/ WatchReadLine(i)
        \/ WatchSend(i)
        \/ WatchPosition(i)
        \/ \E found, opens \in BOOLEAN : WatchPoll(i, found, opens)

SpecTeardown == InitWatcher /\ [][NextTeardown]_vars /\ WF_vars(Threads)

----------------------------------------------------------------------------
(* Log streaming: LogStreamer::stream, cli/src/services/log_streamer.rs.

   The entries come from the watchers' sends; stream takes them off the
   channel one by one.  One call of stream is followed. *)

MaxEntries == 3

(* LogStreamConfig, lines 61-69, without format and buffer_size, which
   decide nothing here; a pattern is a word to find.  `lines` is left None
   where the stream follows: the test of line 314 is never true then *)
LogStreamConfig ==
    {c \in [follow : BOOLEAN,
            lines : {None, Some(1)},
            level_filter : {None} \cup {Some(LogLevel[k]) : k \in 1..Len(LogLevel)},
            service_filter : {None, Some("a")},
            pattern_filter : {None, Some("boom")}] : c.follow => c.lines = None}

(* The entries the watchers send: one of every level that the service and
   the pattern filter let through, one that the pattern filter stops and one
   that the service filter stops *)
StreamEntries ==
    {LogEntry(UtcNow, "ab", LogLevel[k], <<Word("x"), Space, Word("boom")>>, EmptyMap,
              <<Word("x"), Space, Word("boom")>>) : k \in 1..Len(LogLevel)}
    \cup {LogEntry(UtcNow, "ab", "Warn", <<Word("x")>>, EmptyMap, <<Word("x")>>),
          LogEntry(UtcNow, "b", "Error", <<Word("x"), Space, Word("boom")>>, EmptyMap,
                   <<Word("x"), Space, Word("boom")>>)}

(* `level as u8`, line 336: the place of the variant in the enum *)
AsU8(level) == (CHOOSE k \in 1..Len(LogLevel) : LogLevel[k] = level) - 1

(* str::contains, line 343, on the service names of the model *)
Contains(s, sub) ==
    sub \in (CASE s = "a" -> {"", "a"}
               [] s = "b" -> {"", "b"}
               [] s = "ab" -> {"", "a", "b", "ab"}
               [] OTHER -> {"", s})

(* Regex::is_match, line 350, for a pattern that is a word *)
IsMatch(pattern, message) ==
    \E i \in 1..Len(message) : message[i].kind = "word" /\ message[i].text = pattern

(* A test that lets an entry through as soon as one filter passes *)
ShouldDisplayAny(entry, config) ==
    \/ IsSome(config.level_filter) /\ AsU8(entry.level) >= AsU8(Unwrap(config.level_filter))
    \/ IsSome(config.service_filter) /\ Contains(entry.service, Unwrap(config.service_filter))
    \/ IsSome(config.pattern_filter) /\ IsMatch(Unwrap(config.pattern_filter), entry.message)
    \/ config.level_filter = None /\ config.service_filter = None /\ config.pattern_filter = None

(* should_display, lines 333-356 *)
ShouldDisplay(entry, config) ==
    IF IsSome(config.level_filter) /\ AsU8(entry.level) < AsU8(Unwrap(config.level_filter))
    THEN FALSE
    ELSE IF IsSome(config.service_filter)
            /\ ~Contains(entry.service, Unwrap(config.service_filter))
    THEN FALSE
    ELSE IF IsSome(config.pattern_filter)
            /\ ~IsMatch(Unwrap(config.pattern_filter), entry.message)
    THEN FALSE
    ELSE TRUE

(* sender.send(entry), line 128, in a watcher thread; at most MaxEntries
   entries are sent in all *)
Arrive(entry) ==
    /\ Len(channel) + Len(streamer.received) + Len(streamer.earlier) < MaxEntries
    /\ channel' = Append(channel, entry)
    /\ ret' = Ret("send", "", "ok", "")
    /\ UNCHANGED <<managers, line, file, written, watchers, streamer>>

(* stream up to its first receive, lines 282-287 and 303 *)
StreamBegin(config) ==
    /\ streamer.alive
    /\ streamer.pc = "idle"
    /\ streamer' = [streamer EXCEPT !.pc = IF config.follow THEN "follow" ELSE "collect",
                                    !.config = Some(config)]
    /\ ret' = Ret("stream", "", "pending", "")
    /\ UNCHANGED <<managers, line, file, written, watchers, channel>>

(* A test that leaves the loop at the limit in follow mode as well *)
BreakAtLimit(config, count) == IsSome(config.lines) /\ count >= Unwrap(config.lines)

(* lines 313-317: the loop is left once count reaches the limit, unless the
   stream follows *)
Break(config, count) ==
    IsSome(config.lines) /\ count >= Unwrap(config.lines) /\ ~config.follow

(* recv_timeout returns Ok(entry): lines 288-292 when collecting, lines
   307-318 when following *)
StreamRecv ==
    /\ streamer.pc \in {"collect", "follow"}
    /\ channel # <<>>
    /\ LET entry == Head(channel)
           config == Unwrap(streamer.config)
           taken == [streamer EXCEPT !.received = Append(@, entry)]
       IN  /\ channel' = Tail(channel)
           /\ streamer' =
                 IF ~ShouldDisplay(entry, config) THEN taken
                 ELSE IF streamer.pc = "collect"
                 THEN [taken EXCEPT !.buffer = Append(@, entry)]
                 ELSE [taken EXCEPT
                         !.shown = Append(@, entry),
                         !.count = @ + 1,
                         !.pc = IF Break(config, streamer.count + 1) THEN "done" ELSE @]
           /\ ret' = Ret("recv", "", "ok", "")
    /\ UNCHANGED <<managers, line, file, written, watchers>>

(* A display of the first lines of the buffer instead of the last *)
FirstLines(buffer, lines) ==
    LET n == IF IsSome(lines) THEN Unwrap(lines) ELSE Len(buffer)
    IN  SubSeq(buffer, 1, IF Len(buffer) > n THEN n ELSE Len(buffer))

(* The last min(lines, len) entries of the buffer, lines 295-298 *)
LastLines(buffer, lines) ==
    LET n == IF IsSome(lines) THEN Unwrap(lines) ELSE Len(buffer)
        start == IF Len(buffer) > n THEN Len(buffer) - n ELSE 0
    IN  SubSeq(buffer, start + 1, Len(buffer))

(* recv_timeout returns Err(Timeout), nothing having arrived for 100 ms:
   lines 288 and 295-300 when collecting, lines 320-324 when following.
   Err(Disconnected), line 326, does not come: the streamer that stream
   borrows holds a Sender of its own (line 252) *)
StreamTimeout ==
    /\ streamer.pc \in {"collect", "follow"}
    /\ channel = <<>>
    /\ streamer' =
          IF streamer.pc = "collect"
          THEN [streamer EXCEPT !.pc = "done",
                                !.shown = LastLines(streamer.buffer, Unwrap(streamer.config).lines)]
          ELSE IF ~Unwrap(streamer.config).follow THEN [streamer EXCEPT !.pc = "done"]
          ELSE streamer
    /\ ret' = Ret("recv", "", "timeout", "")
    /\ UNCHANGED <<managers, line, file, written, watchers, channel>>

(* stream returns Ok(()), lines 300 and 330, and its locals go *)
StreamReturn ==
    /\ streamer.pc = "done"
    /\ streamer' = [streamer EXCEPT !.pc = "idle", !.config = None, !.buffer = <<>>,
                                    !.count = 0, !.received = <<>>, !.shown = <<>>,
                                    !.earlier = @ \o streamer.received]
    /\ ret' = Ret("stream", "", "ok", "")
    /\ UNCHANGED <<managers, line, file, written, watchers, channel>>

NextStream ==
    \/ \E entry \in StreamEntries : Arrive(entry)
    \/ \E config \in LogStreamConfig : StreamBegin(config)
    \/ StreamRecv
    \/ StreamTimeout

SpecStream == Init /\ [][NextStream]_vars

(* The scenario of the repeated calls: stream is called again and again,
   with a limit of no, one or two lines or none, a minimum level of Warn or
   none, following or not; the entries sent are of the levels Info, Warn and
   Error; stop may be called from another thread at any time *)
TailConfigs ==
    [follow : BOOLEAN, lines : {None, Some(0), Some(1), Some(2)},
     level_filter : {None, Some("Warn")}, service_filter : {None}, pattern_filter : {None}]

NextTail ==
    \/ \E entry \in {e \in StreamEntries : /\ e.service = "ab"
                                            /\ e.level \in {"Info", "Warn", "Error"}
                                            /\ Len(e.message) = 3} : Arrive(entry)
    \/ \E config \in TailConfigs : StreamBegin(config)
    \/ StreamRecv
    \/ StreamTimeout
    \/ StreamReturn
    \/ StopWatchers

SpecTail == Init /\ [][NextTail]_vars

(* The same with the thread that runs stream scheduled again and again *)
SpecCancel ==
    Init /\ [][NextTail]_vars /\ WF_vars(StreamRecv \/ StreamTimeout \/ StreamReturn)

(* The scenario of the failing open: the services a and b write their log
   files, line by line, and the files may be truncated; each file is watched
   by a thread of its own, that of a in follow mode; File::open may fail on
   the file of a, and metadata on either; stream is called in follow mode
   with no filter once both files have been added *)
InitIoError ==
    /\ NewManagers({})
    /\ line = <<>>
    /\ file = [p \in LogFiles |-> <<Word("old"), Newline>>]
    /\ written = <<>>
    /\ NoWatchers

NextIoError ==
    \/ \E p \in LogFiles : \E tok \in Writes :
          /\ Len(written) < MaxWrites - 3
          /\ (file[p] = <<>> \/ file[p][Len(file[p])] = Newline) <=> tok # Newline
          /\ Write(p, tok)
    \/ Len(written) < MaxWrites - 3 /\ Truncate("a")
    \/ Len(watchers) = 0 /\ AddLogFile("a", "a", TRUE, 2)
    \/ \E follow \in BOOLEAN :
          Len(watchers) = 1 /\ streamer.adding = {} /\ AddLogFile("b", "b", follow, 2)
    \/ AddLogFileInsert
    \/ \E i \in 1..Len(watchers) : \E opens \in BOOLEAN :
          (opens \/ watchers[i].service = "a") /\ WatchOpen(i, opens)
    \/ \E i \in 1..Len(watchers) : WatchReadLine(i)
    \/ \E i \in 1..Len(watchers) : WatchSend(i)
    \/ \E i \in 1..Len(watchers) : WatchPosition(i)
    \/ \E i \in 1..Len(watchers) : \E found, opens \in BOOLEAN :
          (opens \/ watchers[i].service = "a") /\ WatchPoll(i, found, opens)
    \/ /\ Len(watchers) = 2
       /\ streamer.adding = {}
       /\ StreamBegin([follow |-> TRUE, lines |-> None, level_filter |-> None,
                       service_filter |-> None, pattern_filter |-> None])
    \/ StreamRecv
    \/ StreamTimeout

SpecIoError == InitIoError /\ [][NextIoError]_vars

----------------------------------------------------------------------------
(* Properties *)

(* The live children spawned for the service n *)
LiveChildren(n) == {c \in children : c.name = n}

(* The number of monitoring threads alive for the service n *)
MonitorCount(n) ==
    LET ts == {t \in BagToSet(monitors) : t.name = n}
        RECURSIVE Sum(_)
        Sum(S) == IF S = {} THEN 0
                  ELSE LET t == CHOOSE x \in S : TRUE
                       IN  CopiesIn(t, monitors) + Sum(S \ {t})
    IN  Sum(ts)

(* C1: start on a service whose record is Running returns Ok, spawns no
   process and no thread, and leaves the whole record as it was. *)
C1_StartOnRunningIsNoOp ==
    [][\A n \in Names :
        (/\ ret'.op = "start"
         /\ ret'.name = n
         /\ n \in DOMAIN services
         /\ services[n].state = "Running")
        => (/\ ret'.result = "ok"
            /\ services' = services
            /\ spawned' = spawned
            /\ children' = children
            /\ monitors' = monitors)]_vars

(* C1 happens: start has just returned from a record that is Running and
   still owns its child *)
C1_Witness ==
    /\ ret.op = "start"
    /\ ret.how = "already running"
    /\ ret.name \in DOMAIN services
    /\ services[ret.name].state = "Running"
    /\ IsSome(services[ret.name].process)
    /\ spawned = 1

(* C2: whenever no call is in progress, every service has at most one live
   child that the supervisor spawned and has not killed, and that child is
   the one its record's handle refers to; in particular a start of a service
   that was marked Restarting leaves no second child running. *)
C2_AtMostOneLiveChild ==
    caller.pc = "idle" =>
        \A n \in Names :
            /\ Cardinality(LiveChildren(n)) <= 1
            /\ \A c \in LiveChildren(n) :
                   n \in DOMAIN services /\ services[n].process = Some(c.pid)

(* C3: a restart that returns Ok leaves the restart counter one above the
   value it had when restart was called, so successive restarts count up. *)
C3_RestartCountsUp ==
    (ret.op = "restart" /\ ret.result = "ok") =>
        services[ret.name].restart_count = Unwrap(ret.val) + 1

(* C4: when restart returns for a registered service, the state is Running
   if the stored command can be spawned and Failed if it cannot; never
   Starting, Restarting or Stopping. *)
C4_RestartEndsRunningOrFailed ==
    (/\ ret.op = "restart"
     /\ ret.result \in {"ok", "err"}
     /\ ret.name \in DOMAIN services) =>
        services[ret.name].state =
            IF services[ret.name].config.command = "ok" THEN "Running" ELSE "Failed"

(* C5: when stop returns Ok for a registered service that was not already
   Stopped, the state is Stopped and the record owns no handle, whatever the
   state before. *)
C5_StopEndsStopped ==
    (/\ ret.op = "stop"
     /\ ret.result = "ok"
     /\ ret.how \notin {"not found", "already stopped"}) =>
        /\ services[ret.name].state = "Stopped"
        /\ services[ret.name].process = None

(* C6: stop on a name that is not registered, or on a service that is
   Stopped, returns Ok and changes nothing: no record appears, no state or
   handle changes, no child is signalled. *)
C6_StopUnknownOrStoppedIsNoOp ==
    [][\A n \in Names :
        (/\ ret'.op = "stop"
         /\ ret'.name = n
         /\ caller.pc = "idle"
         /\ (n \notin DOMAIN services \/ services[n].state = "Stopped"))
        => (/\ ret'.result = "ok"
            /\ caller'.pc = "idle"
            /\ services' = services
            /\ children' = children
            /\ monitors' = monitors
            /\ lock' = lock)]_vars

(* C6 happens: stop has just returned from a record that was Stopped *)
C6_Witness ==
    /\ ret.op = "stop"
    /\ ret.how = "already stopped"
    /\ ret.result = "ok"
    /\ services[ret.name].state = "Stopped"

(* C7: a start whose spawn fails returns Err and leaves a record for the
   name that is Failed and owns no handle, so a status query answers Some
   with state Failed. *)
C7_SpawnFailureIsRecorded ==
    (ret.op = "start" /\ ret.how = "spawn failed") =>
        /\ ret.result = "err"
        /\ ret.name \in DOMAIN services
        /\ services[ret.name].state = "Failed"
        /\ services[ret.name].process = None
        /\ IsSome(StatusOf(ret.name))
        /\ Unwrap(StatusOf(ret.name))[1] = "Failed"

(* C7 happens: a start with a command that cannot be launched has returned,
   over a record that had been Running before *)
C7_Witness ==
    /\ ret.op = "start"
    /\ ret.result = "err"
    /\ ret.name \in DOMAIN services
    /\ services[ret.name].config.command = "bad"
    /\ spawned > 0

(* C8: restart on a name that is not registered returns the not-found error
   and does nothing else: no stop, no spawn, no change of the registry. *)
C8_RestartUnknownFails ==
    [][\A n \in Names :
        (/\ ret'.op = "restart"
         /\ ret'.name = n
         /\ caller.pc = "idle"
         /\ n \notin DOMAIN services)
        => (/\ ret'.result = "err"
            /\ ret'.how = "not found"
            /\ caller'.pc = "idle"
            /\ services' = services
            /\ spawned' = spawned
            /\ children' = children
            /\ monitors' = monitors
            /\ lock' = lock)]_vars

(* C8 happens: restart has just returned not-found for an unregistered name *)
C8_Witness ==
    /\ ret.op = "restart"
    /\ ret.result = "err"
    /\ ret.name \in Names
    /\ ret.name \notin DOMAIN services

(* C10: at every moment at most one monitoring thread is alive per service. *)
C10_OneMonitorPerService ==
    \A n \in Names : MonitorCount(n) <= 1

(* C9: once a failing health check has marked a service Restarting, the
   restart eventually completes: the service is Running again and its
   restart counter has been incremented. *)
C9_AutoRestartCompletes ==
    \A n \in Names :
        (n \in DOMAIN services /\ services[n].state = "Restarting")
            ~> (/\ n \in DOMAIN services
                /\ services[n].state = "Running"
                /\ services[n].restart_count > 0)

(* C11: the polling task of a service that was stopped exits: when it wakes
   up and the record no longer owns the child the task was launched with
   (a stop has taken the handle since), the task ends there and goes on to
   no further health check, whatever was called after the stop. *)
C11_StoppedTaskExits ==
    [][\A t \in BagToSet(monitors) :
        (/\ MonShouldCheck(t)
         /\ Registered(t.name)
         /\ services[t.name].process # Some(t.born))
        => monitors' = monitors (-) SetToBag({t})]_vars

(* C12: no monitoring thread is inside its HTTP health check while the
   registry lock is held. *)
C12_NoLockAcrossHealthCheck ==
    \A t \in BagToSet(monitors) : t.pc = "http" => lock = "free"

(* C13: a status or list call made on another thread (the manager is Sync,
   its methods take &self) never waits for process I/O: while a graceful
   stop is waiting out its grace period the call can take the registry lock
   and return. *)
C13_StatusNeverWaits ==
    caller.pc \in {"stop_grace", "restart_grace"} =>
        /\ ENABLED ListCall
        /\ \A n \in Names : ENABLED StatusCall(n)

(* C14: whatever stop calls are made, a child is sent signals by at most one
   call of stop: the call that took its handle out of the record. *)
C14_SignalledByOneStop ==
    \A pid \in 1..spawned : CopiesIn(pid, signalled) <= 1

(* C14 happens: a stop has signalled a child that is still alive (its kill
   failed), and a second stop of the same service has just returned having
   found no handle *)
C14_Witness ==
    /\ ret.op = "stop"
    /\ ret.how = "no process"
    /\ \E c \in children :
           /\ c.name = ret.name
           /\ CopiesIn(c.pid, signalled) = 1

(* C15: when the monitoring thread writes an Unhealthy result to a Running
   service, the state becomes Restarting if the restart policy is OnFailure
   or Always and stays Running otherwise; the health status becomes
   Unhealthy and the handle, the config and the restart counter stay. *)
C15_RestartingIffPolicy ==
    [][\A t \in BagToSet(monitors) :
        (/\ t.hs = "Unhealthy"
         /\ Registered(t.name)
         /\ services[t.name].state = "Running"
         /\ MonUpdate(t))
        => LET old == services[t.name]
               new == services'[t.name]
           IN  /\ new.state = IF old.config.restart_policy \in {"OnFailure", "Always"}
                               THEN "Restarting" ELSE "Running"
               /\ new.health_status = "Unhealthy"
               /\ new.process = old.process
               /\ new.config = old.config
               /\ new.restart_count = old.restart_count]_vars

(* C15 happens: a poll has just written Unhealthy to a service whose policy
   is UnlessStopped, which is still Running with its child *)
C15_Witness ==
    /\ ret.op = "poll"
    /\ \E n \in DOMAIN services :
           /\ services[n].health_status = "Unhealthy"
           /\ IsSome(services[n].last_health_check)
           /\ services[n].config.restart_policy = "UnlessStopped"
           /\ services[n].state = "Running"
           /\ IsSome(services[n].process)

(* C16: stop_all returns Ok whatever the stops it made returned, and it has
   then called stop once on every registered service. *)
C16_StopAllStopsEveryService ==
    (ret.op = "stop_all" /\ ret.result # "pending") =>
        /\ ret.result = "ok"
        /\ LET tried == Unwrap(ret.val)
           IN  /\ {tried[i][1] : i \in 1..Len(tried)} = DOMAIN services
               /\ Len(tried) = Cardinality(DOMAIN services)

(* C16 happens: stop_all has returned after a first stop that failed and a
   second stop, of the other service, that went through *)
C16_Witness ==
    /\ ret.op = "stop_all"
    /\ ret.result = "ok"
    /\ LET tried == Unwrap(ret.val)
       IN  /\ Len(tried) = 2
           /\ tried[1][2] = "err"
           /\ tried[2][2] = "ok"
           /\ services[tried[1][1]].state = "Stopping"
           /\ services[tried[2][1]].state = "Stopped"
           /\ LiveChildren(tried[2][1]) = {}

(* C17: when stop_all has returned and none of its stops failed, no child
   the supervisor spawned is alive and no record holds a handle. *)
C17_NoOrphanAfterStopAll ==
    (/\ ret.op = "stop_all"
     /\ ret.result = "ok"
     /\ \A i \in 1..Len(Unwrap(ret.val)) : Unwrap(ret.val)[i][2] = "ok") =>
        /\ children = {}
        /\ \A n \in DOMAIN services : services[n].process = None

(* C18: no step takes a record out of the registry, so a status query on a
   name that was registered answers Some ever after; restart on a registered
   service, Failed included, reads its config instead of reporting not-found,
   and its start_service leaves the record Running if Command::spawn
   launches the stored command, as it does whenever the executable is in
   place, and Failed if it does not. *)
C18_RecordsStay ==
    [][/\ DOMAIN services \subseteq DOMAIN services'
       /\ \A n \in DOMAIN services : IsSome(StatusOf(n))'
       /\ \A n \in DOMAIN services :
              (caller.pc = "idle" /\ ret'.op = "restart" /\ ret'.name = n)
                  => (ret'.result = "pending" /\ caller'.cfg = Some(services[n].config))
       /\ (caller.pc = "restart_start" /\ caller' # caller)
              => /\ caller.name \in DOMAIN services'
                 /\ ret'.how \in {"started", "spawn failed"}
                 /\ Unwrap(caller.cfg).command = "ok" => ret'.how = "started"
                 /\ services'[caller.name].state =
                        IF ret'.how = "started" THEN "Running" ELSE "Failed"
                 /\ ret'.result = IF ret'.how = "started" THEN "pending" ELSE "err"]_vars

(* C18 happens: the one spawn before had failed, which left the record
   Failed, and no child was ever there to be signalled; restart of that
   service, its executable in place by now, has returned Ok and the record
   is Running with the child of the second spawn *)
C18_Witness ==
    /\ ret.op = "restart"
    /\ ret.result = "ok"
    /\ spawned = 2
    /\ signalled = EmptyBag
    /\ ret.name \in DOMAIN services
    /\ services[ret.name].state = "Running"
    /\ services[ret.name].process = Some(2)
    /\ services[ret.name].config.command = "bad"
    /\ StatusOf(ret.name) = Some(<<"Running", "Unknown">>)

(* C19: perform_check on a registered name returns Ok with the status of
   its one GET -- Healthy for a 2xx status, Unhealthy for a status from 500
   on, Degraded for any other status, Unhealthy when the connection fails or
   times out -- and that status is the one stored for the name. *)
C19_CheckClassifies ==
    (ret.op = "perform_check" /\ ret.name \in DOMAIN checks) =>
        /\ ret.result = "ok"
        /\ LET code == Unwrap(ret.val)[1]
               status == Unwrap(ret.val)[2]
           IN  /\ status =
                     IF ret.how = "status"
                     THEN IF code \in 200..299 THEN "Healthy"
                          ELSE IF code >= 500 THEN "Unhealthy"
                          ELSE "Degraded"
                     ELSE "Unhealthy"
               /\ ret.name \in DOMAIN results
               /\ results[ret.name].status = status

(* C19 happens: a check answered 404 has returned Degraded over a stored
   status that was Healthy, and the stored status is Degraded now *)
C19_Witness ==
    /\ ret.op = "perform_check"
    /\ ret.result = "ok"
    /\ ret.val = Some(<<404, "Degraded">>)
    /\ results[ret.name].status = "Degraded"
    /\ Len(trail) >= 3
    /\ trail[Len(trail) - 1] = <<ret.name, "Healthy">>

(* The number of results of n that are not Healthy since its last Healthy
   result, or since its registration *)
Streak(n) ==
    LET RECURSIVE Run(_)
        Run(i) == IF i = 0 THEN 0
                  ELSE IF trail[i][1] # n THEN Run(i - 1)
                  ELSE IF trail[i][2] \in {"Healthy", "registered"} THEN 0
                  ELSE 1 + Run(i - 1)
    IN  Run(Len(trail))

(* C20: the consecutive-failure counter of every name equals the number of
   Degraded or Unhealthy results since the last Healthy result of the name,
   or since its registration. *)
C20_FailuresCountStreak ==
    \A n \in DOMAIN results : results[n].consecutive_failures = Streak(n)

(* C20 happens: a name was registered, failed a check, passed one and failed
   one again, and its counter is back at 1 *)
C20_Witness ==
    /\ Len(trail) = 4
    /\ \E n \in DOMAIN results :
           /\ trail[1] = <<n, "registered">>
           /\ trail[2] = <<n, "Unhealthy">>
           /\ trail[3] = <<n, "Healthy">>
           /\ trail[4] = <<n, "Degraded">>
           /\ results[n].consecutive_failures = 1

(* C21: check_all checks every registered name once and returns a mapping
   whose keys are exactly the registered names, each with the status just
   stored for it, whatever the endpoints answered. *)
C21_CheckAllCoversEveryName ==
    ret.op = "check_all" =>
        LET map == Unwrap(ret.val)[1]
            k == Cardinality(DOMAIN checks)
        IN  /\ DOMAIN map = DOMAIN checks
            /\ \A n \in DOMAIN checks : map[n] = results[n].status
            /\ Len(trail) >= k
            /\ {trail[i][1] : i \in (Len(trail) - k + 1)..Len(trail)} = DOMAIN checks
            /\ \A i \in (Len(trail) - k + 1)..Len(trail) : trail[i][2] = map[trail[i][1]]

(* C21 happens: check_all has returned for two names, the first checked
   unreachable and the second one answering 2xx *)
C21_Witness ==
    /\ ret.op = "check_all"
    /\ Cardinality(DOMAIN checks) = 2
    /\ Len(trail) >= 2
    /\ LET first == trail[Len(trail) - 1][1]
           second == trail[Len(trail)][1]
       IN  /\ Unwrap(ret.val)[2][first] = "refused"
           /\ Unwrap(ret.val)[1][first] = "Unhealthy"
           /\ Unwrap(ret.val)[1][second] = "Healthy"
           /\ results[second].status = "Healthy"

(* C22: get_unhealthy_services returns exactly the registered names whose
   stored status is Degraded or Unhealthy. *)
C22_UnhealthyServicesExact ==
    ret.op = "get_unhealthy_services" =>
        Unwrap(ret.val) =
            {n \in DOMAIN checks : results[n].status \in {"Degraded", "Unhealthy"}}

(* C22 happens: the query has returned a name that is Degraded and left out a
   registered name that was never checked *)
C22_Witness ==
    /\ ret.op = "get_unhealthy_services"
    /\ \E n, m \in DOMAIN checks :
           /\ results[n].status = "Degraded"
           /\ results[m].status = "Unknown"
           /\ n \in Unwrap(ret.val)
           /\ m \notin Unwrap(ret.val)

(* The line is empty or made of blanks and line feeds only *)
Blank(l) == \A i \in 1..Len(l) : l[i].kind \in {"space", "newline"}

(* C23: parse_line returns no record exactly when the line is empty or
   whitespace-only; every other line, a JSON text that is no object
   included, gives a record. *)
C23_ParseNeverFails ==
    ret.op = "parse_line" => (ret.val = None <=> Blank(line))

(* The JSON object the line consists of, if it is one *)
ObjectOf(l) ==
    IF IsSome(FromStrJson(Trim(l))) /\ Unwrap(FromStrJson(Trim(l))).type = "object"
    THEN Some(Unwrap(FromStrJson(Trim(l))).map)
    ELSE None

(* The first of the keys that the object has: a set of none or one key *)
FirstOf(obj, first, second) ==
    IF first \in DOMAIN obj THEN {first}
    ELSE IF second \in DOMAIN obj THEN {second} ELSE {}

(* The level each text names, whatever its case *)
LevelNamed ==
    [s \in JsonStrings |->
        CASE s = "trace" -> "Trace" [] s = "DEBUG" -> "Debug"
          [] s \in {"warn", "WARNING"} -> "Warn" [] s = "Error" -> "Error"
          [] OTHER -> "Info"]

(* C24: for a line that is a JSON object the level is the one named by
   `level`, else by `severity` (any case, WARNING for Warn, Info when
   missing or unknown), the message is `message`, else `msg`, else the raw
   line, and the fields are the members left once the keys that were read are
   taken out. *)
C24_JsonObjectFields ==
    (ret.op = "parse_line" /\ IsSome(ObjectOf(line))) =>
        LET obj == Unwrap(ObjectOf(line))
            lk == FirstOf(obj, "level", "severity")
            mk == FirstOf(obj, "message", "msg")
        IN  /\ IsSome(ret.val)
            /\ LET e == Unwrap(ret.val)
               IN  /\ \A k \in lk :
                         e.level = IF obj[k].type = "string" THEN LevelNamed[obj[k].s] ELSE "Info"
                   /\ lk = {} => e.level = "Info"
                   /\ \A k \in mk :
                         e.message = IF obj[k].type = "string" THEN <<Word(obj[k].s)>> ELSE Trim(line)
                   /\ mk = {} => e.message = Trim(line)
                   /\ (lk \cup mk) \cap DOMAIN e.fields = {}
                   /\ \A k \in DOMAIN e.fields : k \in DOMAIN obj /\ e.fields[k] = obj[k]
                   /\ \A k \in (DOMAIN obj) \ (lk \cup mk) :
                         k \in DOMAIN e.fields \/ k \in {"timestamp", "time", "ts"}

(* C24 happens: {"level":"warn","message":"x","extra":42} has been parsed
   into level Warn, message x and the one field extra *)
C24_Witness ==
    /\ ret.op = "parse_line"
    /\ line = <<Json(JObject([k \in {"level", "message", "extra"} |->
                    CASE k = "level" -> JValue("string", "warn")
                      [] k = "message" -> JValue("string", "x")
                      [] OTHER -> JValue("number", "42")])), Newline>>
    /\ IsSome(ret.val)
    /\ Unwrap(ret.val).level = "Warn"
    /\ Unwrap(ret.val).message = <<Word("x")>>
    /\ DOMAIN Unwrap(ret.val).fields = {"extra"}

(* C25: for a plain-text line with a timestamp `YYYY-MM-DD HH:MM:SS` and a
   level keyword, the record has the level of the (first) keyword and the
   date and time of the (first) timestamp, not the current time. *)
C25_TextTimestampAndLevel ==
    LET l == Trim(line)
        stamps == {i \in 1..Len(l) : l[i].kind = "stamp"}
        levels == {i \in 1..Len(l) : l[i].kind = "word" /\ l[i].text \in {"ERROR", "warn", "WARNING"}}
    IN  (/\ ret.op = "parse_line"
         /\ ~IsSome(FromStrJson(l))
         /\ levels # {}
         /\ stamps # {}
         /\ l[CHOOSE i \in stamps : \A j \in stamps : i <= j].text = "2024-01-01 00:00:00")
        => /\ IsSome(ret.val)
           /\ Unwrap(ret.val).level =
                 (IF l[CHOOSE i \in levels : \A j \in levels : i <= j].text = "ERROR"
                  THEN "Error" ELSE "Warn")
           /\ Unwrap(ret.val).timestamp = [date |-> "2024-01-01", time |-> "00:00:00"]

(* The text that the writes s make, one after the other *)
RECURSIVE Joined(_)
Joined(s) == IF s = <<>> THEN <<>> ELSE Cat(<<Head(s)>>, Joined(Tail(s)))

(* The complete lines of the text s, each with its line feed *)
RECURSIVE CompleteLines(_)
CompleteLines(s) ==
    IF LineFeed(s) = 0 THEN <<>>
    ELSE <<SubSeq(s, 1, LineFeed(s))>> \o CompleteLines(SubSeq(s, LineFeed(s) + 1, Len(s)))

(* The lines of s: the complete ones and what follows the last line feed *)
AllLines(s) ==
    LET whole == CompleteLines(s)
        last == IF s # <<>> /\ s[Len(s)] # Newline
                THEN SubSeq(s, 1 + CHOOSE k \in 0..Len(s) :
                                    /\ (k = 0 \/ s[k] = Newline)
                                    /\ \A j \in (k + 1)..Len(s) : s[j] # Newline, Len(s))
                ELSE <<>>
    IN  IF last = <<>> THEN whole ELSE Append(whole, last)

(* The records of the lines ls: one for each line that is not blank *)
RECURSIVE Records(_, _)
Records(ls, service) ==
    IF ls = <<>> THEN <<>>
    ELSE (IF Blank(Head(ls)) THEN <<>>
          ELSE <<LogEntry(UtcNow, service, "Info", Trim(Head(ls)), EmptyMap, Trim(Head(ls)))>>)
         \o Records(Tail(ls), service)

(* s is made of lines that are complete, one at least not blank *)
WholeLines(s) ==
    /\ s # <<>>
    /\ s[Len(s)] = Newline
    /\ \E i \in 1..Len(s) : s[i] # Newline

(* The watcher has read all there is: it sleeps, and its next poll and read
   would find nothing *)
Settled(w) == w.pc = "sleep" /\ ~Shrunk(w) /\ ReadLine(w).line = <<>>

(* C26: a follow-mode watcher is on the file before anything is written; N
   lines are written and sent by the watcher, the file is truncated, M lines
   are written.  Once the watcher has read all there is, the channel holds
   the N lines followed by the M lines, none twice and none missing. *)
C26_SurvivesTruncation ==
    \A i \in 1..Len(watchers) : \A cut \in 1..Len(written) :
        (/\ watchers[i].follow
         /\ watchers[i].pc # "start"
         /\ watchers[i].opened = 0
         /\ written[cut] = Truncated
         /\ \A j \in 1..Len(written) : written[j] = Truncated => j = cut
         /\ WholeLines(SubSeq(written, 1, cut - 1))
         /\ WholeLines(SubSeq(written, cut + 1, Len(written)))
         /\ LET first == Records(CompleteLines(Joined(SubSeq(written, 1, cut - 1))),
                                 watchers[i].service)
            IN  Len(channel) >= Len(first) /\ SubSeq(channel, 1, Len(first)) = first
         /\ Settled(watchers[i]))
        => channel =
              Records(CompleteLines(Joined(SubSeq(written, 1, cut - 1))),
                      watchers[i].service)
              \o Records(CompleteLines(Joined(SubSeq(written, cut + 1, Len(written)))),
                         watchers[i].service)

(* C27: a follow-mode watcher sends nothing of what the file held when it
   opened it (no letter of a word that was in the file or had been written
   by then is in a record; the writer writes every letter once); a
   non-follow watcher on a file that nobody writes meanwhile has sent, when
   it ends, every line of the file from the start, and it ends at the end of
   the file. *)
C27_FollowFromEndElseFromStart ==
    \A i \in 1..Len(watchers) :
        LET w == watchers[i]
            Letters(t) == {SubSeq(t, c, c) : c \in 1..Len(t)}
            before == UNION ({Letters(t) : t \in {"old", "older", "12"}}
                             \cup {Letters(written[j].text) : j \in 1..w.opened})
        IN  /\ (w.follow /\ w.pc # "start") =>
                  \A k \in 1..Len(channel) : \A t \in 1..Len(channel[k].raw) :
                      Letters(channel[k].raw[t].text) \cap (before \ {"\n"}) = {}
            /\ (~w.follow /\ w.pc = "done" /\ w.opened = Len(written)) =>
                  /\ channel = Records(AllLines(file[w.path]), w.service)
                  /\ w.position = Size(file[w.path])

(* C28: with one watcher on a file that is only appended to, the records on
   the channel are the non-blank lines of the file (for a follow-mode
   watcher, of what was appended since it opened the file), in the order of
   the file and each once, whatever the writer does meanwhile; the lines that
   have not been read yet are the only ones missing. *)
C28_FileOrderPreserved ==
    \A i \in 1..Len(watchers) :
        LET w == watchers[i]
            all == Records(AllLines(IF w.follow
                                    THEN Joined(SubSeq(written, w.opened + 1, Len(written)))
                                    ELSE file[w.path]), w.service)
        IN  (/\ w.pc # "start"
             /\ \A j \in 1..Len(written) : written[j] # Truncated
             /\ (w.follow /\ w.opened > 0) => written[w.opened] = Newline)
            => /\ Len(channel) <= Len(all)
               /\ channel = SubSeq(all, 1, Len(channel))

(* C29: once the streamer has been stopped or dropped, every follow-mode
   watcher thread comes to its end. *)
C29_WatchersEndAfterStop ==
    (ret.op \in {"stop", "drop"}) ~>
        (\A i \in 1..Len(watchers) :
            watchers[i].follow => watchers[i].pc \in {"done", "failed"})

(* The order Trace < Debug < Info < Warn < Error: the levels from level up *)
AtLeast(level) ==
    CASE level = "Trace" -> {"Trace", "Debug", "Info", "Warn", "Error"}
      [] level = "Debug" -> {"Debug", "Info", "Warn", "Error"}
      [] level = "Info" -> {"Info", "Warn", "Error"}
      [] level = "Warn" -> {"Warn", "Error"}
      [] level = "Error" -> {"Error"}

(* Every filter the stream was called with passes the entry e *)
Passes(e) ==
    LET config == Unwrap(streamer.config)
    IN  /\ IsSome(config.level_filter) => e.level \in AtLeast(Unwrap(config.level_filter))
        /\ IsSome(config.service_filter) =>
              (Unwrap(config.service_filter) = "a" /\ e.service \in {"a", "ab"})
        /\ IsSome(config.pattern_filter) =>
              (\E i \in 1..Len(e.message) : e.message[i] = Word(Unwrap(config.pattern_filter)))

(* The entries of the sequence s that pass every filter, in the order of s *)
RECURSIVE Passing(_)
Passing(s) ==
    IF s = <<>> THEN <<>>
    ELSE (IF Passes(Head(s)) THEN <<Head(s)>> ELSE <<>>) \o Passing(Tail(s))

(* C30: what stream displays is made of entries that pass every configured
   filter; a following stream has displayed exactly the entries received
   that pass, in the order of arrival, a collecting stream has kept exactly
   those, and displays them all at its end unless `lines` cuts the head
   off. *)
C30_DisplaysIffAllFiltersPass ==
    streamer.pc # "idle" =>
        LET config == Unwrap(streamer.config)
            passing == Passing(streamer.received)
        IN  /\ \A k \in 1..Len(streamer.shown) : Passes(streamer.shown[k])
            /\ streamer.pc = "follow" => streamer.shown = passing
            /\ streamer.pc = "collect" => streamer.buffer = passing /\ streamer.shown = <<>>
            /\ (streamer.pc = "done" /\ config.lines = None) => streamer.shown = passing
            /\ (streamer.pc = "done" /\ IsSome(config.lines)) =>
                  /\ Len(streamer.shown) <= Len(passing)
                  /\ streamer.shown =
                        SubSeq(passing, Len(passing) - Len(streamer.shown) + 1, Len(passing))

(* C30 happens: with a minimum level of Warn and no other filter, of an
   Info, an Error and a Warn entry received in this order the stream has
   displayed the Error and the Warn entry, in this order *)
C30_Witness ==
    /\ streamer.pc = "follow"
    /\ Unwrap(streamer.config).level_filter = Some("Warn")
    /\ Unwrap(streamer.config).service_filter = None
    /\ Unwrap(streamer.config).pattern_filter = None
    /\ Len(streamer.received) = 3
    /\ streamer.received[1].level = "Info"
    /\ streamer.received[2].level = "Error"
    /\ streamer.received[3].level = "Warn"
    /\ streamer.shown = SubSeq(streamer.received, 2, 3)

(* C35: a step of a monitoring thread removes no record and moves no record
   to Failed, Stopping or Stopped; the update that follows a passing check
   writes Healthy and the time of the check and leaves the state and
   everything else in the registry as it was. *)
C35_PassingCheckKeepsState ==
    [][monitors' # monitors /\ ret'.op = "poll" =>
        /\ \A n \in DOMAIN services :
              /\ n \in DOMAIN services'
              /\ services'[n].state # services[n].state
                    => services'[n].state \notin {"Failed", "Stopping", "Stopped"}
        /\ \A t \in BagToSet(monitors) :
              (t.hs = "Healthy" /\ Registered(t.name) /\ MonUpdate(t))
              => /\ services'[t.name].state = services[t.name].state
                 /\ services' = [services EXCEPT ![t.name].health_status = "Healthy",
                                                 ![t.name].last_health_check = Some(Now)]]_vars

(* C35 happens: a poll has just written Healthy and the time of the check to
   a service, which is Running with its child *)
C35_Witness ==
    /\ ret.op = "poll"
    /\ \E n \in DOMAIN services :
           /\ services[n].health_status = "Healthy"
           /\ services[n].last_health_check = Some(Now)
           /\ services[n].state = "Running"
           /\ IsSome(services[n].process)

(* C37: while nobody holds the registry lock, a record has a child handle
   exactly when its state is Running or Restarting. *)
C37_HandleIffRunningOrRestarting ==
    lock = "free" =>
        \A n \in DOMAIN services :
            IsSome(services[n].process) <=> services[n].state \in {"Running", "Restarting"}

(* C38: a start_service on a name whose record, if there is one, is not
   Running leaves a record made from the configuration of the call alone
   (the step is the start_service of the configuration the record holds):
   restart counter 0, health status Unknown, no time of a health check, and
   as handle the child just spawned or none, never the handle of the record
   it replaces. *)
C38_StartReplacesRecord ==
    [][(ret'.op = "start" /\ ret'.how # "already running")
        => LET n == ret'.name
               new == services'[n]
           IN  /\ ~AlreadyRunning(n)
               /\ StartService(new.config, MaxSpawns, FALSE)
               /\ new.restart_count = 0
               /\ new.health_status = "Unknown"
               /\ new.last_health_check = None
               /\ new.state \in {"Running", "Failed"}
               /\ new.process = IF new.state = "Running" THEN Some(spawned') ELSE None
               /\ Registered(n) /\ IsSome(services[n].process)
                     => new.process # services[n].process]_vars

(* C38 happens: a start has just replaced the record of a service started
   before, which was no longer Running; the new record is Running with the
   second child, counter 0 and health status Unknown, while the first child
   and the monitoring thread of the first record are still there *)
C38_Witness ==
    /\ ret.op = "start"
    /\ ret.how = "started"
    /\ spawned = 2
    /\ services[ret.name].process = Some(2)
    /\ services[ret.name].restart_count = 0
    /\ services[ret.name].health_status = "Unknown"
    /\ services[ret.name].last_health_check = None
    /\ \E c \in children : c.pid = 1
    /\ BagCardinality(monitors) = 2

(* C39: the check registry and the result registry have the same names; the
   failure counter of a name is 0 when its status is Unknown or Healthy and
   positive when it is Degraded or Unhealthy; and add_check leaves the name
   with the status Unknown, the counter 0 and no time of a check, whatever
   its result was before. *)
C39_RegistriesAgree ==
    /\ [](/\ DOMAIN checks = DOMAIN results
          /\ \A n \in DOMAIN results :
                /\ results[n].status \in {"Unknown", "Healthy"}
                      <=> results[n].consecutive_failures = 0
                /\ results[n].status \in {"Degraded", "Unhealthy"}
                      <=> results[n].consecutive_failures > 0)
    /\ [][\A n \in HealthNames : \A check \in HealthCheck :
            AddCheck(n, check)
            => /\ results'[n].status = "Unknown"
               /\ results'[n].consecutive_failures = 0
               /\ results'[n].last_check = None
               /\ checks'[n] = check]_vars

(* C39 happens: a name that had failed two checks has just been registered
   again, and its status is Unknown and its counter 0 *)
C39_Witness ==
    /\ ret.op = "add_check"
    /\ Len(trail) = 4
    /\ trail[1] = <<ret.name, "registered">>
    /\ trail[2][1] = ret.name /\ trail[2][2] \in {"Degraded", "Unhealthy"}
    /\ trail[3][1] = ret.name /\ trail[3][2] \in {"Degraded", "Unhealthy"}
    /\ trail[4] = <<ret.name, "registered">>
    /\ results[ret.name].status = "Unknown"
    /\ results[ret.name].consecutive_failures = 0

(* C34: when the child of a Running service has exited, and nobody calls
   stop or restart, the state of the service eventually leaves Running. *)
C34_ExitIsDetected ==
    \A n \in Names :
        (/\ Registered(n)
         /\ services[n].state = "Running"
         /\ IsSome(services[n].process)
         /\ \A c \in children : c.pid # Unwrap(services[n].process))
        ~> (Registered(n) /\ services[n].state # "Running")

(* C33: a create_log_file that returns Ok leaves what the file held in
   place and has added after it one line, ended by its newline, that names
   the service; one that fails leaves the file as it was. *)
C33_CreateAppendsOneLine ==
    [][ret'.op = "create_log_file" =>
        IF ret'.result = "ok"
        THEN LET old == file[ret'.name]
                 new == file'[ret'.name]
                 added == SubSeq(new, Len(old) + 1, Len(new))
             IN  /\ Len(new) > Len(old)
                 /\ SubSeq(new, 1, Len(old)) = old
                 /\ {i \in 1..Len(added) : added[i] = Newline} = {Len(added)}
                 /\ \E i \in 1..Len(added) : added[i] = Word(ret'.name)
                 /\ \A p \in LogFiles \ {ret'.name} : file'[p] = file[p]
        ELSE file' = file]_vars

(* C33 happens: create_log_file has been called twice on a file that held
   two lines and a blank line; the file holds them still, followed by the
   two marker lines *)
C33_Witness ==
    /\ ret.op = "create_log_file"
    /\ ret.result = "ok"
    /\ SubSeq(file["a"], 1, 5) = <<Word("old"), Newline, Newline, Word("older"), Newline>>
    /\ Len(written) = 2
    /\ Cardinality({i \in 1..Len(file["a"]) : file["a"][i] = Newline}) = 5

(* C36: the step in which a watcher fails to open its file, at its start or
   after a truncation, puts nothing on the channel and changes neither the
   other watchers, which go on from where they were, nor the streamer; the
   watcher takes no step after it.  Whether or not a watcher has failed, a
   watcher that has read a line sends what parse_line makes of that line
   under the name of its service, nothing else gets onto the channel, and
   the stream takes the entries off the channel in their order and displays
   them. *)
C36_OpenFailureIsContained ==
    [][/\ \A i \in 1..Len(watchers) :
              /\ (watchers[i].pc # "failed" /\ watchers'[i].pc = "failed")
                 => /\ channel' = channel
                    /\ streamer' = streamer
                    /\ \A j \in 1..Len(watchers) : j # i => watchers'[j] = watchers[j]
              /\ watchers[i].pc = "failed" => watchers'[i] = watchers[i]
              /\ (watchers[i].pc = "send" /\ watchers'[i].pc # "send")
                 => LET entry == ParseLine(watchers[i].line, watchers[i].service)
                    IN  /\ watchers[i].line # <<>>
                        /\ channel' = IF IsSome(entry) THEN Append(channel, Unwrap(entry))
                                      ELSE channel
                        /\ IsSome(entry) => Unwrap(entry).service = watchers[i].service
                        /\ streamer' = streamer
       /\ (channel' # channel /\ \A i \in 1..Len(watchers) : watchers[i].pc = watchers'[i].pc)
             => /\ streamer.pc = "follow"
                /\ ret'.op = "recv"
                /\ channel' = Tail(channel)
                /\ watchers' = watchers
                /\ streamer'.received = Append(streamer.received, Head(channel))
                /\ streamer'.shown = Append(streamer.shown, Head(channel))]_vars

(* C36 happens: the watcher of a has failed to open its file again after a
   truncation, and the stream has just displayed a line that b wrote after
   that and the watcher of b sent *)
C36_Witness ==
    /\ Len(watchers) = 2
    /\ watchers[1].service = "a"
    /\ watchers[1].pc = "failed"
    /\ watchers[1].position > 0
    /\ watchers[2].pc \notin {"failed", "start"}
    /\ ret.op = "recv"
    /\ ret.result = "ok"
    /\ streamer.shown # <<>>
    /\ Len(streamer.received) > watchers[1].ended
    /\ streamer.shown[Len(streamer.shown)].service = "b"

(* C31: when a stream that does not follow is done, it has displayed the
   last min(N, k) of the k entries it received that pass the filters, in the
   order of arrival, N being the limit `lines`: all k when there is no
   limit, none when the limit is 0.  The entries the filters stop count for
   nothing in the tail. *)
C31_TailOfFiltered ==
    (streamer.pc = "done" /\ ~Unwrap(streamer.config).follow) =>
        LET passing == Passing(streamer.received)
            k == Len(passing)
            lines == Unwrap(streamer.config).lines
            n == IF lines = None \/ Unwrap(lines) > k THEN k ELSE Unwrap(lines)
        IN  /\ Len(streamer.shown) = n
            /\ \A i \in 1..n : streamer.shown[i] = passing[k - n + i]

(* C31 happens: with a minimum level of Warn and a limit of one line, of an
   Error, a Warn and an Info entry received in this order the stream has
   displayed the Warn entry alone *)
C31_Witness ==
    /\ streamer.pc = "done"
    /\ ~Unwrap(streamer.config).follow
    /\ Unwrap(streamer.config).lines = Some(1)
    /\ Unwrap(streamer.config).level_filter = Some("Warn")
    /\ Len(streamer.received) = 3
    /\ streamer.received[1].level = "Error"
    /\ streamer.received[2].level = "Warn"
    /\ streamer.received[3].level = "Info"
    /\ streamer.shown = <<streamer.received[2]>>

(* C32: once stop has been called while a stream follows, the call of stream
   returns. *)
C32_FollowCanBeStopped ==
    (streamer.pc = "follow" /\ ret.op = "stop") ~> (streamer.pc \in {"done", "idle"})

(* C40: an entry leaves the channel when stream receives it and in no other
   way, is received by the call that takes it off and by no other, and
   never comes back: a call starts with nothing received, and what is
   received, displayed or not, is the head of the channel, which loses it.
   A stream that follows has displayed every entry received that passes the
   filters, whatever the limit `lines`, and the limit never ends it. *)
C40_ConsumedOnce ==
    /\ [](/\ streamer.pc = "idle" => streamer.received = <<>>
          /\ streamer.pc = "follow" => streamer.shown = Passing(streamer.received))
    /\ [][LET taken == streamer.earlier \o streamer.received
              taken2 == streamer'.earlier \o streamer'.received
          IN  /\ \/ taken2 = taken /\ channel' = channel
                 \/ /\ taken2 = taken
                    /\ Len(channel') = Len(channel) + 1
                    /\ SubSeq(channel', 1, Len(channel)) = channel
                 \/ /\ channel # <<>>
                    /\ taken2 = Append(taken, Head(channel))
                    /\ streamer'.received = Append(streamer.received, Head(channel))
                    /\ channel' = Tail(channel)
              /\ streamer.pc = "follow" => streamer'.pc = "follow"]_vars

(* C40 happens: an earlier call of stream took an Info entry off the
   channel; the present call, following with no filter and a limit of one
   line, has received two other entries and displayed both *)
C40_Witness ==
    /\ streamer.pc = "follow"
    /\ Unwrap(streamer.config).lines = Some(1)
    /\ Unwrap(streamer.config).level_filter = None
    /\ Len(streamer.earlier) = 1
    /\ streamer.earlier[1].level = "Info"
    /\ Len(streamer.received) = 2
    /\ \A k \in 1..2 : streamer.received[k].level # "Info"
    /\ streamer.shown = streamer.received
    /\ channel = <<>>

====
